---- MODULE Spec2Model ----
(***************************************************************************)
(* Model of the ETABS model generator: the generation pass of run.py       *)
(* (Structure.create_elevations .. set_groups, then pickle) followed by    *)
(* the resync pass of update.py, against an abstract model sink (SapModel).*)
(* Lengths are inches, as in the code (feet * 12).                         *)
(***************************************************************************)
EXTENDS Integers, Sequences, FiniteSets, TLC

VARIABLES
    pc,               \* position in run.py main / update.py main
    x_grids,          \* Structure.x_grids: dict label -> Y ordinate (insertion order kept)
    y_grids,          \* Structure.y_grids: dict label -> X ordinate
    df_floors,        \* floor table, roof to base
    df_SFRSbays,      \* per floor, the bay descriptor cells
    df_MF,            \* moment frame section table, or None
    df_braces,        \* brace section/config table, or None
    df_walls,         \* wall thickness table, or None
    model_options,    \* n_infill, enable_REZ, base_fixity
    floor_names,      \* Structure.floor_names
    floor_objects,    \* Structure.floor_objects
    frame_objects,    \* Structure.frame_objects: uid -> Frame
    index_for,        \* Structure.index_for: tag -> list of frame uids
    index_for_walls,  \* Structure.index_for_walls: tag -> list of wall uids
    sink_frames,      \* the sink's frame objects: uid -> properties
    sink_areas,       \* the sink's area objects (floors and walls)
    sink_piers,       \* the sink's pier labels
    sink_groups,      \* the sink's groups: name -> assigned <<kind, uid>>
    sink_calls,       \* log of the member-level sink calls: <<pass, op, kind, uid>>
    pickled,          \* the persisted Structure (ModelGeneratorData.pkl) or None
    update_tables,    \* the tables update.py reads on its run
    sink_fail,        \* which FrameObj.AddByCoord of create_frames the sink fails (0: none)
    error             \* the exception that ended the run (pass and bay cell), or None

vars == <<pc, x_grids, y_grids, df_floors, df_SFRSbays, df_MF, df_braces, df_walls,
          model_options, floor_names, floor_objects, frame_objects, index_for,
          index_for_walls, sink_frames, sink_areas, sink_piers, sink_groups,
          sink_calls, pickled, update_tables, sink_fail, error>>

inputs == <<x_grids, y_grids, df_floors, df_SFRSbays, df_MF, df_braces, df_walls,
            model_options, update_tables, sink_fail>>

(***************************************************************************)
(* Bounds of the input space.                                              *)
(***************************************************************************)
MaxGrid == 3      \* grid lines per family
MaxFloors == 2    \* floors
MaxInfill == 2    \* n_infill

\* feet to inches, as in "floor_elev * 12"
InchesPerFoot == 12

None == "None"

\* None where the value would be a table or an object (a DataFrame, a dict)
NoTable == <<>>

\* Grid labels: numeric for x_grids, letters for y_grids (Structure docstring).
Digits == <<"1", "2", "3", "4", "5">>
Letters == <<"A", "B", "C", "D", "E">>

\* The empty cell of the bay table (pd.isna).
NaN == [on |-> "", from |-> "", to |-> ""]

\* Pier labels: the reserved default "P1"; floor_name + "_" + SFRS_string is written
\* <<floor_name, descriptor>>; an area with no pier has NoPier.
P1 == <<"P1">>
NoPier == <<>>

\* Tags of the index: role tags, str(floor) and "on <grid>".
RoleTag(r) == <<"role", r>>
FloorTag(f) == <<"floor", f>>
OnTag(g) == <<"on", g>>

RoleTags ==
    {RoleTag(r) : r \in {"column", "girder", "beam", "SFRS", "SFRS_beamX", "SFRS_beamY",
                         "SFRS_columnX", "SFRS_columnY", "SFRS_braceX", "SFRS_braceY",
                         "deleted"}}

WallRoleTags == {RoleTag("SFRS_wallX"), RoleTag("SFRS_wallY")}

\* dict helpers: "label in grids", grids[label], list(grids.items())
InGrid(grids, label) == \E i \in DOMAIN grids : grids[i].label = label

GridOrd(grids, label) == grids[CHOOSE i \in DOMAIN grids : grids[i].label = label].ord

GridLabels(grids) == {grids[i].label : i \in DOMAIN grids}

SeqToSet(s) == {s[i] : i \in DOMAIN s}

RECURSIVE Flatten(_)
Flatten(ss) == IF ss = <<>> THEN <<>> ELSE Head(ss) \o Flatten(Tail(ss))

Min2(a, b) == IF a <= b THEN a ELSE b
Max2(a, b) == IF a >= b THEN a ELSE b

(***************************************************************************)
(* Inputs (read_user_input): grids in feet * 12, floors roof to base.      *)
(***************************************************************************)
FloorNameSeq == <<"F1", "F2", "F3", "F4">>

\* x_grids / y_grids as read_user_input builds them: {str(k): v*12}
MkGrids(labels, n) ==
    [i \in 1..n |-> [label |-> labels[i], ord |-> (i - 1) * InchesPerFoot]]

\* The section named in column `col` of row i of a table of version ver.
Sec(col, i, ver) == <<col, i, ver>>

\* Boundary polygons (inches), W and H the grid extents along x and y.
PolyVerts(kind, W, H) ==
    CASE kind = "rect"  -> << <<0, 0>>, <<W, 0>>, <<W, H>>, <<0, H>> >>
      [] kind = "big"   -> << <<0 - 6, 0 - 6>>, <<W + 6, 0 - 6>>, <<W + 6, H + 6>>,
                              <<0 - 6, H + 6>> >>
      [] kind = "small" -> << <<0 - 6, 0 - 6>>, <<W - 6, 0 - 6>>, <<W - 6, H + 6>>,
                              <<0 - 6, H + 6>> >>
      [] kind = "notch" -> << <<0 - 6, 0 - 6>>, <<W + 6, 0 - 6>>, <<W + 6, H>>, <<8, H>>,
                              <<8, H - 3>>, <<4, H - 3>>, <<4, H>>, <<0 - 6, H>> >>

\* The polygon kinds that are simple polygons of positive area for an nx-by-ny grid.
PolyKinds(nx, ny) ==
    {"big"} \cup (IF ny >= 2 THEN {"small", "notch"} ELSE {})
            \cup (IF nx >= 2 /\ ny >= 2 THEN {"rect"} ELSE {})

MkFloors(nf, kindTop, kindRest, nx, ny) ==
    [i \in 1..nf |->
        [floor_name    |-> FloorNameSeq[i],
         floor_height  |-> 1,
         floor_elev    |-> nf - i + 1,
         floor_polygon |-> PolyVerts(IF i = 1 THEN kindTop ELSE kindRest,
                                     (ny - 1) * InchesPerFoot, (nx - 1) * InchesPerFoot),
         slab   |-> Sec("slab", i, "v1"),
         girder |-> Sec("girder", i, "v1"),
         beam   |-> Sec("beam", i, "v1"),
         column |-> Sec("column", i, "v1")]]

(***************************************************************************)
(* Structure.create_frames: the lattice of one floor, in creation order.   *)
(***************************************************************************)
ZCurrent(idx) == df_floors[idx].floor_elev * InchesPerFoot

ZBelow(idx) == ZCurrent(idx) - df_floors[idx].floor_height * InchesPerFoot

\* modelgenerator.Frame(...) before add_by_coord (deleted and is_lateral start as the
\* falsy None, written FALSE here)
NewFrame(type, story, section, p0, p1) ==
    [frame_type |-> type, story |-> story, section |-> section,
     end_coords |-> <<p0, p1>>, unique_name |-> None, deleted |-> FALSE,
     is_lateral |-> FALSE, frame_direction |-> None]

\* A member to create: the Frame, whether set_releases(pinned)/set_cardinal_point
\* are called on it, and the index lists it is appended to.
Plan(frame, pinned, tags) == [frame |-> frame, pinned |-> pinned, tags |-> tags]

\* "# columns": one column per (ygrid, xgrid) pair of the two dicts
ColumnPlansOn(idx, xs, ys) ==
    LET nx == Len(xs)
        ny == Len(ys)
        row == df_floors[idx]
    IN  [k \in 1..(ny * nx) |->
            LET yg == ys[((k - 1) \div nx) + 1]
                xg == xs[((k - 1) % nx) + 1]
            IN  Plan(NewFrame("column", row.floor_name, row.column,
                              <<yg.ord, xg.ord, ZBelow(idx)>>,
                              <<yg.ord, xg.ord, ZCurrent(idx)>>),
                     FALSE,
                     {RoleTag("column"), FloorTag(row.floor_name),
                      OnTag(xg.label), OnTag(yg.label)})]

\* Mutant: the inner loop misses the first x grid line.
ColumnPlansSkipFirst(idx) == ColumnPlansOn(idx, Tail(x_grids), y_grids)

ColumnPlans(idx) == ColumnPlansOn(idx, x_grids, y_grids)

\* "# X girders": for each of `lines`, one girder per consecutive pair of `spans`
GirderPlansOn(idx, lines, spans) ==
    LET nl == Len(lines)
        ns == Len(spans)
        row == df_floors[idx]
    IN  IF ns < 2 THEN <<>> ELSE
        [k \in 1..(nl * (ns - 1)) |->
            LET xg == lines[((k - 1) \div (ns - 1)) + 1]
                j  == ((k - 1) % (ns - 1)) + 1
            IN  Plan(NewFrame("girder", row.floor_name, row.girder,
                              <<spans[j].ord, xg.ord, ZCurrent(idx)>>,
                              <<spans[j + 1].ord, xg.ord, ZCurrent(idx)>>),
                     TRUE,
                     {RoleTag("girder"), FloorTag(row.floor_name), OnTag(xg.label)})]

\* Mutant: the two grid families are exchanged in the girder loops.
GirderPlansSwapped(idx) == GirderPlansOn(idx, y_grids, x_grids)

\* Mutant: a girder is also filed under the y grid line where it starts.
GirderPlansAlsoOnStart(idx) ==
    LET plans == GirderPlansOn(idx, x_grids, y_grids)
        ns == Len(y_grids)
    IN  [k \in DOMAIN plans |->
            [plans[k] EXCEPT !.tags = @ \cup {OnTag(y_grids[((k - 1) % (ns - 1)) + 1].label)}]]

GirderPlans(idx) == GirderPlansOn(idx, x_grids, y_grids)

BeamPlans(idx) ==
    LET nx == Len(x_grids)
        ny == Len(y_grids)
        row == df_floors[idx]
    IN  IF nx < 2 THEN <<>> ELSE
        [k \in 1..(ny * (nx - 1)) |->
            LET yg == y_grids[((k - 1) \div (nx - 1)) + 1]
                j  == ((k - 1) % (nx - 1)) + 1
            IN  Plan(NewFrame("beam", row.floor_name, row.beam,
                              <<yg.ord, x_grids[j].ord, ZCurrent(idx)>>,
                              <<yg.ord, x_grids[j + 1].ord, ZCurrent(idx)>>),
                     TRUE,
                     {RoleTag("beam"), FloorTag(row.floor_name), OnTag(yg.label)})]

\* Mutant: the bay is divided by n_infill instead of n_infill + 1.
InfillXDividedByN(x_left, x_right, k, n) == x_left + ((k + 1) * (x_right - x_left)) \div n

\* x = x_left + (k+1)*(bay_width) / (n_infill+1)
InfillX(x_left, x_right, k, n) == x_left + ((k + 1) * (x_right - x_left)) \div (n + 1)

InfillPlans(idx) ==
    LET nx == Len(x_grids)
        ny == Len(y_grids)
        n  == model_options.n_infill
        row == df_floors[idx]
    IN  IF nx < 2 \/ ny < 2 \/ n = 0 THEN <<>> ELSE
        [m \in 1..((ny - 1) * (nx - 1) * n) |->
            LET i == ((m - 1) \div ((nx - 1) * n)) + 1
                j == (((m - 1) \div n) % (nx - 1)) + 1
                k == (m - 1) % n
                x == InfillX(y_grids[i].ord, y_grids[i + 1].ord, k, n)
            IN  Plan(NewFrame("beam", row.floor_name, row.beam,
                              <<x, x_grids[j].ord, ZCurrent(idx)>>,
                              <<x, x_grids[j + 1].ord, ZCurrent(idx)>>),
                     TRUE,
                     {RoleTag("beam"), FloorTag(row.floor_name)})]

FloorPlans(idx) ==
    ColumnPlans(idx) \o GirderPlans(idx) \o BeamPlans(idx) \o InfillPlans(idx)

LatticePlans == Flatten([idx \in 1..Len(df_floors) |-> FloorPlans(idx)])

\* Structure.init_index_groups: the keys of index_for and of index_for_walls
IndexTags ==
    RoleTags \cup {FloorTag(f) : f \in SeqToSet(floor_names)}
             \cup {OnTag(g) : g \in GridLabels(x_grids) \cup GridLabels(y_grids)}

WallIndexTags ==
    WallRoleTags \cup {FloorTag(f) : f \in SeqToSet(floor_names)}
                 \cup {OnTag(g) : g \in GridLabels(x_grids) \cup GridLabels(y_grids)}

\* The sink's record of a frame after FrameObj.AddByCoord
SinkFrame(frame) ==
    [end_coords |-> frame.end_coords, section |-> frame.section, releases |-> "default",
     cardinal |-> 0, deleted |-> FALSE, rez |-> FALSE, angle |-> 0]

\* Frame.set_cardinal_point(cardinal_pt=8): top center
CardinalTopCenter == 8

\* The uids FrameObj.AddByCoord hands out: fresh, one per created frame.
NextFrameUid == Cardinality(DOMAIN sink_frames)

Calls(pass, op, kind, uids) == {<<pass, op, kind, u>> : u \in uids}

(***************************************************************************)
(* The input space.                                                        *)
(***************************************************************************)
Desc(on, from, to) == [on |-> on, from |-> from, to |-> to]

\* "<on>;<from>-<to>" with on an x_grids label and from, to y_grids labels
XBayDescs(nx, ny) ==
    {Desc(Digits[i], Letters[a], Letters[b]) : i \in 1..nx, a \in 1..ny, b \in 1..ny}

\* "<on>;<from>-<to>" with on a y_grids label and from, to x_grids labels
YBayDescs(nx, ny) ==
    {Desc(Letters[i], Digits[a], Digits[b]) : i \in 1..ny, a \in 1..nx, b \in 1..nx}

BraceConfigs == {"SingleA", "SingleB", "X", "V", "Chevron"}

InputCfg(nx, ny, nf, kt, kr, inf, rowTop, rowRest, mf, bc, walls, rez) ==
    [nx |-> nx, ny |-> ny, nf |-> nf, kindTop |-> kt, kindRest |-> kr, n_infill |-> inf,
     rowTop |-> rowTop, rowRest |-> rowRest, mf |-> mf, brace_config |-> bc,
     walls |-> walls, enable_REZ |-> rez]

\* Grids, floors, polygons and infill vary; one moment-frame bay along grid "1".
GeomConfigs ==
    {InputCfg(g[1], g[2], nf, kt, kr, inf, <<Desc("1", "A", Letters[g[2]]), NaN>>,
              <<Desc("1", "A", Letters[g[2]]), NaN>>, TRUE, None, FALSE, FALSE) :
        g \in (1..MaxGrid) \X (1..MaxGrid), nf \in 1..MaxFloors,
        kt \in {"big", "rect", "small", "notch"}, kr \in {"big", "small"},
        inf \in 0..MaxInfill}

\* The lateral systems vary on a 2 x MaxGrid grid: <<df_MF, brace config, df_walls,
\* enable_REZ, polygon of the top floor>>
LatKinds ==
    {<<TRUE, None, FALSE, FALSE, "big">>, <<TRUE, None, FALSE, TRUE, "small">>,
     <<FALSE, None, TRUE, FALSE, "big">>, <<TRUE, "X", TRUE, TRUE, "big">>,
     <<TRUE, "V", FALSE, FALSE, "small">>}
        \cup {<<FALSE, c, FALSE, FALSE, "big">> : c \in BraceConfigs}

LatConfigs ==
    {InputCfg(2, MaxGrid, MaxFloors, k[5], "big", 0, <<d1, d2>>, <<d2, NaN>>,
              k[1], k[2], k[3], k[4]) :
        d1 \in XBayDescs(2, MaxGrid) \cup YBayDescs(2, MaxGrid) \cup {NaN},
        d2 \in {NaN, Desc("A", "1", "2")},
        k \in LatKinds}

ValidCfg(c) ==
    /\ c.kindTop \in PolyKinds(c.nx, c.ny)
    /\ c.kindRest \in PolyKinds(c.nx, c.ny)
    /\ c.nf = 1 => c.kindRest = "big"
    /\ \A d \in {c.rowTop[1], c.rowTop[2], c.rowRest[1], c.rowRest[2]} :
          d # NaN => /\ d.on \in SeqToSet(SubSeq(Digits, 1, c.nx))
                                 \cup SeqToSet(SubSeq(Letters, 1, c.ny))
                     /\ {d.from, d.to} \subseteq SeqToSet(SubSeq(Digits, 1, c.nx))
                                 \cup SeqToSet(SubSeq(Letters, 1, c.ny))

InputConfigs == {c \in GeomConfigs \cup LatConfigs : ValidCfg(c)}

\* What surrounds a run besides the workbook of the generation: the pier
\* labels the attached ETABS model already holds, the floor_height the user
\* typed for the top floor (feet), and whether the workbook read by update.py
\* still has its moment-frame table.
Surroundings(piers, top_height, fresh_mf) ==
    [piers |-> piers, top_height |-> top_height, fresh_mf |-> fresh_mf]

\* A new ETABS model, floor heights equal to the elevation differences, and
\* the same tables present at the resync.
Fresh == Surroundings({P1}, 1, TRUE)

\* The Structure after read_user_input on input c, the y grid lines labelled
\* y_labels, the sink failing the fail-th frame it is asked to add, in
\* surroundings env.
InitIn(c, y_labels, fail, env) ==
        /\ pc = "create_elevations"
        /\ x_grids = MkGrids(Digits, c.nx)
        /\ y_grids = MkGrids(y_labels, c.ny)
        /\ df_floors = [MkFloors(c.nf, c.kindTop, c.kindRest, c.nx, c.ny)
                            EXCEPT ![1].floor_height = env.top_height]
        /\ df_SFRSbays = [i \in 1..c.nf |->
                            [floor_name |-> FloorNameSeq[i],
                             bays |-> IF i = 1 THEN c.rowTop ELSE c.rowRest]]
        /\ df_MF = IF c.mf
                   THEN [i \in 1..c.nf |->
                            [x_column |-> Sec("x_column", i, "v1"),
                             x_beam |-> Sec("x_beam", i, "v1"),
                             y_column |-> Sec("y_column", i, "v1"),
                             y_beam |-> Sec("y_beam", i, "v1")]]
                   ELSE NoTable
        /\ df_braces = IF c.brace_config # None
                       THEN [i \in 1..c.nf |->
                                [x_brace |-> Sec("x_brace", i, "v1"),
                                 x_config |-> c.brace_config,
                                 y_brace |-> Sec("y_brace", i, "v1"),
                                 y_config |-> c.brace_config]]
                       ELSE NoTable
        /\ df_walls = IF c.walls
                      THEN [i \in 1..c.nf |->
                                [x_wall |-> Sec("x_wall", i, "v1"),
                                 y_wall |-> Sec("y_wall", i, "v1")]]
                      ELSE NoTable
        /\ model_options = [n_infill |-> c.n_infill, enable_REZ |-> c.enable_REZ,
                            base_fixity |-> "Pinned", diaphragm_type |-> "Rigid"]
        /\ update_tables =
             [df_floors |-> [i \in 1..c.nf |->
                                [girder |-> Sec("girder", i, "v2"),
                                 beam |-> Sec("beam", i, "v2"),
                                 column |-> Sec("column", i, "v2")]],
              df_MF |-> IF c.mf /\ env.fresh_mf
                        THEN [i \in 1..c.nf |->
                                [x_column |-> Sec("x_column", i, "v2"),
                                 x_beam |-> Sec("x_beam", i, "v2"),
                                 y_column |-> Sec("y_column", i, "v2"),
                                 y_beam |-> Sec("y_beam", i, "v2")]]
                        ELSE NoTable,
              df_braces |-> IF c.brace_config # None
                            THEN [i \in 1..c.nf |->
                                    [x_brace |-> Sec("x_brace", i, "v2"),
                                     y_brace |-> Sec("y_brace", i, "v2")]]
                            ELSE NoTable,
              df_walls |-> IF c.walls
                           THEN [i \in 1..c.nf |->
                                    [x_wall |-> Sec("x_wall", i, "v2"),
                                     y_wall |-> Sec("y_wall", i, "v2")]]
                           ELSE NoTable]
        /\ floor_names = NoTable
        /\ floor_objects = NoTable
        /\ frame_objects = NoTable
        /\ index_for = NoTable
        /\ index_for_walls = NoTable
        /\ sink_frames = <<>>
        /\ sink_areas = <<>>
        /\ sink_piers = env.piers
        /\ sink_groups = [g \in {"ALL LATERAL"} |-> {}]
        /\ sink_calls = {}
        /\ pickled = NoTable
        /\ sink_fail = fail
        /\ error = NoTable

InitFrom(c, y_labels, fail) == InitIn(c, y_labels, fail, Fresh)

\* Well-formed inputs and a sink that adds every frame.
Init == \E c \in InputConfigs : InitFrom(c, Letters, 0)

(***************************************************************************)
(* run.py main: the generation pass.                                       *)
(***************************************************************************)
\* Structure.create_elevations
CreateElevations ==
    /\ pc = "create_elevations"
    /\ floor_names' = [i \in 1..Len(df_floors) |-> df_floors[i].floor_name]
    /\ sink_calls' = sink_calls \cup Calls("create_elevations", "define_stories", "model", {0})
    /\ pc' = "create_grids"
    /\ UNCHANGED <<inputs, error, floor_objects, frame_objects, index_for, index_for_walls,
                   sink_frames, sink_areas, sink_piers, sink_groups, pickled>>

\* Structure.create_grids
CreateGrids ==
    /\ pc = "create_grids"
    /\ sink_calls' = sink_calls \cup Calls("create_grids", "define_grid_lines", "model", {0})
    /\ pc' = "create_floors"
    /\ UNCHANGED <<inputs, error, floor_names, floor_objects, frame_objects, index_for,
                   index_for_walls, sink_frames, sink_areas, sink_piers, sink_groups,
                   pickled>>

\* The uids AreaObj.AddByCoord hands out (floors and walls share them).
NextAreaUid == Cardinality(DOMAIN sink_areas)

\* Structure.create_floors
CreateFloors ==
    /\ pc = "create_floors"
    /\ LET n == Len(df_floors)
           base == NextAreaUid
       IN  /\ floor_objects' =
                [f \in {df_floors[i].floor_name : i \in 1..n} |->
                    LET i == CHOOSE j \in 1..n : df_floors[j].floor_name = f
                    IN  [story |-> f, z |-> df_floors[i].floor_elev * InchesPerFoot,
                         vertices |-> df_floors[i].floor_polygon,
                         section |-> df_floors[i].slab, unique_name |-> base + i]]
           /\ sink_areas' =
                [u \in DOMAIN sink_areas \cup {base + i : i \in 1..n} |->
                    IF u \in DOMAIN sink_areas THEN sink_areas[u]
                    ELSE [kind |-> "floor", vertices |-> df_floors[u - base].floor_polygon,
                          section |-> df_floors[u - base].slab, pier |-> NoPier]]
           /\ sink_calls' = sink_calls
                \cup Calls("create_floors", "create_floor", "area", {base + i : i \in 1..n})
    /\ pc' = "create_frames"
    /\ UNCHANGED <<inputs, error, floor_names, frame_objects, index_for, index_for_walls,
                   sink_frames, sink_piers, sink_groups, pickled>>

\* The name FrameObj.AddByCoord returns for a frame it did not add: the name
\* of no frame of the sink.
Sentinel == 0

\* Frame.add_by_coord: unique_name = ret[0] of the k-th frame of create_frames;
\* the sink names the frames it adds base + 1, base + 2, ..
LatticeUid(base, k) ==
    IF sink_fail = 0 \/ k < sink_fail THEN base + k
    ELSE IF k = sink_fail THEN Sentinel
    ELSE base + k - 1

\* The position in the lattice of the frame whose unique_name is u
LatticePos(base, u) ==
    IF sink_fail = 0 THEN u - base
    ELSE IF u = Sentinel THEN sink_fail
    ELSE IF u - base < sink_fail THEN u - base
    ELSE u - base + 1

\* Structure.create_frames
CreateFrames ==
    /\ pc = "create_frames"
    /\ \E plans \in {LatticePlans}, base \in {NextFrameUid} :
         LET n == Len(plans)
             uids == [k \in 1..n |-> LatticeUid(base, k)]
             new == {uids[k] : k \in 1..n}
             added == new \ {Sentinel}
             plan(u) == plans[LatticePos(base, u)]
         IN  /\ index_for' =
                  [t \in IndexTags |->
                      SelectSeq(uids, LAMBDA u : t \in plan(u).tags)]
             /\ index_for_walls' = [t \in WallIndexTags |-> <<>>]
             /\ frame_objects' =
                  [u \in new |-> [plan(u).frame EXCEPT !.unique_name = u]]
             /\ sink_frames' =
                  [u \in DOMAIN sink_frames \cup added |->
                      IF u \in DOMAIN sink_frames THEN sink_frames[u]
                      ELSE [SinkFrame(plan(u).frame) EXCEPT
                              !.releases = IF plan(u).pinned THEN "pinned" ELSE @,
                              !.cardinal = IF plan(u).pinned
                                           THEN CardinalTopCenter ELSE @]]
             /\ sink_calls' = sink_calls
                  \cup Calls("create_frames", "create_frame", "frame", new)
                  \cup Calls("create_frames", "set_releases", "frame",
                             {u \in new : plan(u).pinned})
                  \cup Calls("create_frames", "set_insertion_point", "frame",
                             {u \in new : plan(u).pinned})
    /\ pc' = "delete_frames"
    /\ UNCHANGED <<inputs, error, floor_names, floor_objects, sink_areas, sink_piers,
                   sink_groups, pickled>>


(***************************************************************************)
(* shapely: Polygon(vertices).covers(LineString(points)), on integer       *)
(* coordinates.  Exact for the segments of the lattice (parallel to an     *)
(* axis, or a single point for a column) and polygons with axis-parallel   *)
(* edges: along such a segment the polygon is entered or left only at the  *)
(* coordinate of a vertex, so the segment is covered iff its end points,   *)
(* the points at vertex coordinates and the midpoints between them are.    *)
(***************************************************************************)
Cross(a, b, p) == (b[1] - a[1]) * (p[2] - a[2]) - (b[2] - a[2]) * (p[1] - a[1])

OnSegment(p, a, b) ==
    /\ Cross(a, b, p) = 0
    /\ Min2(a[1], b[1]) <= p[1] /\ p[1] <= Max2(a[1], b[1])
    /\ Min2(a[2], b[2]) <= p[2] /\ p[2] <= Max2(a[2], b[2])

PolyEdges(poly) == {<<poly[i], poly[(i % Len(poly)) + 1]>> : i \in 1..Len(poly)}

OnBoundary(p, poly) == \E e \in PolyEdges(poly) : OnSegment(p, e[1], e[2])

\* Crossing number of the ray from p towards +x
RayCrosses(p, e) ==
    LET a == e[1]
        b == e[2]
        dy == b[2] - a[2]
        t == (a[1] - p[1]) * dy + (p[2] - a[2]) * (b[1] - a[1])
    IN  /\ (a[2] > p[2]) # (b[2] > p[2])
        /\ IF dy > 0 THEN t > 0 ELSE t < 0

InInterior(p, poly) ==
    /\ ~OnBoundary(p, poly)
    /\ Cardinality({e \in PolyEdges(poly) : RayCrosses(p, e)}) % 2 = 1

\* No point outside: in the interior or on the boundary.
PointCovered(p, poly) == OnBoundary(p, poly) \/ InInterior(p, poly)

\* The sample coordinates (doubled) between c1 and c2 along one axis
SampleCoords(c1, c2, vertexCoords) ==
    LET lo == 2 * Min2(c1, c2)
        hi == 2 * Max2(c1, c2)
        crit == {lo, hi} \cup {2 * v : v \in {w \in vertexCoords : lo < 2 * w /\ 2 * w < hi}}
        mids == {(u + v) \div 2 : u \in crit, v \in crit}
    IN  crit \cup mids

\* Mutant: only the first end point of the line is tested.
CoversFirstEndpoint(poly, a, b) == PointCovered(a, poly)

\* Mutant: contains_properly, no point of the line may touch the boundary.
CoversProperly(poly, a, b) ==
    LET poly2 == [i \in DOMAIN poly |-> <<2 * poly[i][1], 2 * poly[i][2]>>]
        xs == SampleCoords(a[1], b[1], {poly[i][1] : i \in DOMAIN poly})
        ys == SampleCoords(a[2], b[2], {poly[i][2] : i \in DOMAIN poly})
    IN  \A x \in xs, y \in ys : InInterior(<<x, y>>, poly2)

\* floor_polygon.covers(line), line the projection <<a, b>> of a member
Covers(poly, a, b) ==
    LET poly2 == [i \in DOMAIN poly |-> <<2 * poly[i][1], 2 * poly[i][2]>>]
        xs == SampleCoords(a[1], b[1], {poly[i][1] : i \in DOMAIN poly})
        ys == SampleCoords(a[2], b[2], {poly[i][2] : i \in DOMAIN poly})
    IN  \A x \in xs, y \in ys : PointCovered(<<x, y>>, poly2)

\* the (x, y) projection of an end point
Project(p) == <<p[1], p[2]>>

\* list(set(a) - set(b)): no duplicates; the order is the set's, here ascending
RECURSIVE SortedSeq(_)
SortedSeq(S) ==
    IF S = {} THEN <<>>
    ELSE LET m == CHOOSE x \in S : \A y \in S : x <= y
         IN  <<m>> \o SortedSeq(S \ {m})

ListSetDiff(a, b) == SortedSeq(SeqToSet(a) \ SeqToSet(b))

\* Mutant: only the top floor is trimmed before the lateral passes start.
FloorDeletionsTopOnly(i) ==
    LET floor_name == floor_names[i]
        poly == floor_objects[floor_name].vertices
    IN  IF i > 1 THEN <<>>
        ELSE SelectSeq(index_for[FloorTag(floor_name)],
                       LAMBDA idx : ~Covers(poly, Project(frame_objects[idx].end_coords[1]),
                                            Project(frame_objects[idx].end_coords[2])))

\* The members of floor i that delete_frames deletes, in the order of index_for[floor]
FloorDeletions(i) ==
    LET floor_name == floor_names[i]
        poly == floor_objects[floor_name].vertices
    IN  SelectSeq(index_for[FloorTag(floor_name)],
                  LAMBDA idx : ~Covers(poly, Project(frame_objects[idx].end_coords[1]),
                                       Project(frame_objects[idx].end_coords[2])))

\* Structure.delete_frames
DeleteFrames ==
    /\ pc = "delete_frames"
    /\ \E gone \in {Flatten([i \in 1..Len(floor_names) |-> FloorDeletions(i)])} :
         LET goneSet == SeqToSet(gone)
             deleted == index_for[RoleTag("deleted")] \o gone
         IN  /\ frame_objects' =
                  [u \in DOMAIN frame_objects |->
                      IF u \in goneSet THEN [frame_objects[u] EXCEPT !.deleted = TRUE]
                      ELSE frame_objects[u]]
             /\ sink_frames' =
                  [u \in DOMAIN sink_frames |->
                      IF u \in goneSet THEN [sink_frames[u] EXCEPT !.deleted = TRUE]
                      ELSE sink_frames[u]]
             /\ sink_calls' = sink_calls
                  \cup Calls("delete_frames", "delete_member", "frame", goneSet)
             /\ index_for' =
                  [index_for EXCEPT
                     ![RoleTag("deleted")] = deleted,
                     ![RoleTag("column")] = ListSetDiff(index_for[RoleTag("column")], deleted),
                     ![RoleTag("girder")] = ListSetDiff(index_for[RoleTag("girder")], deleted),
                     ![RoleTag("beam")] = ListSetDiff(index_for[RoleTag("beam")], deleted)]
    /\ pc' = "add_MFs"
    /\ UNCHANGED <<inputs, error, floor_names, floor_objects, index_for_walls, sink_areas,
                   sink_piers, sink_groups, pickled>>


(***************************************************************************)
(* Structure.add_MFs                                                       *)
(***************************************************************************)
\* The non-empty cells of the bay table, floor by floor, as <<i, descriptor>>
BayCells ==
    Flatten([i \in 1..Len(df_SFRSbays) |->
                LET row == df_SFRSbays[i].bays
                    full == SelectSeq(row, LAMBDA d : d # NaN)
                IN  [k \in 1..Len(full) |-> <<i, full[k]>>]])

\* Mutant: the ordinates are taken in the order of the labels, without min/max.
MFBayRangeUnsorted(d) ==
    IF InGrid(x_grids, d.from)
    THEN [direction |-> "Y",
          ordinate_from |-> GridOrd(x_grids, d.from),
          ordinate_to |-> GridOrd(x_grids, d.to)]
    ELSE [direction |-> "X",
          ordinate_from |-> GridOrd(y_grids, d.from),
          ordinate_to |-> GridOrd(y_grids, d.to)]

\* add_MFs "get ordinate limit": the family of grid_from decides the direction
MFBayRange(d) ==
    IF InGrid(x_grids, d.from)
    THEN [direction |-> "Y",
          ordinate_from |-> Min2(GridOrd(x_grids, d.from), GridOrd(x_grids, d.to)),
          ordinate_to |-> Max2(GridOrd(x_grids, d.from), GridOrd(x_grids, d.to))]
    ELSE [direction |-> "X",
          ordinate_from |-> Min2(GridOrd(y_grids, d.from), GridOrd(y_grids, d.to)),
          ordinate_to |-> Max2(GridOrd(y_grids, d.from), GridOrd(y_grids, d.to))]

\* Mutant: a member is in the bay as soon as one of its endpoints is.
CheckInSFRSbayEitherEnd(frame, frame_direction, ordinate_from, ordinate_to) ==
    LET c == IF frame_direction = "X" THEN 1 ELSE 2
    IN  \E e \in 1..2 : /\ frame.end_coords[e][c] >= ordinate_from
                        /\ frame.end_coords[e][c] <= ordinate_to

\* Frame.check_in_SFRSbay
CheckInSFRSbay(frame, frame_direction, ordinate_from, ordinate_to) ==
    LET c == IF frame_direction = "X" THEN 1 ELSE 2
        i_inbay == frame.end_coords[1][c] >= ordinate_from
                   /\ frame.end_coords[1][c] <= ordinate_to
        j_inbay == frame.end_coords[2][c] >= ordinate_from
                   /\ frame.end_coords[2][c] <= ordinate_to
    IN  i_inbay /\ j_inbay

\* The members add_MFs keeps for descriptor d on a floor, given the index and frames
MFKept(fo, ix, floor_name, d) ==
    LET r == MFBayRange(d)
        relevant_member_id == SeqToSet(ix[OnTag(d.on)]) \cap SeqToSet(ix[FloorTag(floor_name)])
    IN  {uid \in relevant_member_id :
            CheckInSFRSbay(fo[uid], r.direction, r.ordinate_from, r.ordinate_to)}

\* A sink call on frame u takes effect only if the sink still has the frame.
SinkHas(sf, u) == u \in DOMAIN sf /\ ~sf[u].deleted

\* Mutant: a member already promoted to SFRS_column is turned back into a
\* column by a bay of the other direction.
MFPromotionToggle(frame_type, direction) ==
    CASE direction = "X" /\ frame_type = "column" -> <<"SFRS_column", "x_column", "SFRS_columnX">>
      [] direction = "X" /\ frame_type = "girder" -> <<"SFRS_beam", "x_beam", "SFRS_beamX">>
      [] direction = "Y" /\ frame_type = "column" -> <<"SFRS_column", "y_column", "SFRS_columnY">>
      [] direction = "Y" /\ frame_type = "beam"   -> <<"SFRS_beam", "y_beam", "SFRS_beamY">>
      [] direction = "Y" /\ frame_type = "SFRS_column" -> <<"column", "y_column", "SFRS_columnY">>
      [] direction = "X" /\ frame_type = "SFRS_column" -> <<"column", "x_column", "SFRS_columnX">>
      [] OTHER -> <<None, None, None>>

\* The role a kept member is promoted to, or None: <<new frame_type, section column, tag>>
MFPromotion(frame_type, direction) ==
    CASE direction = "X" /\ frame_type = "column" -> <<"SFRS_column", "x_column", "SFRS_columnX">>
      [] direction = "X" /\ frame_type = "girder" -> <<"SFRS_beam", "x_beam", "SFRS_beamX">>
      [] direction = "Y" /\ frame_type = "column" -> <<"SFRS_column", "y_column", "SFRS_columnY">>
      [] direction = "Y" /\ frame_type = "beam"   -> <<"SFRS_beam", "y_beam", "SFRS_beamY">>
      [] OTHER -> <<None, None, None>>

\* One bay of add_MFs (lines 425-481) applied to st = [fo, sf, ix, calls]
MFBay(st, i, d) ==
    LET floor_name == df_SFRSbays[i].floor_name
        dir == MFBayRange(d).direction
        kept == MFKept(st.fo, st.ix, floor_name, d)
        keptSeq == SortedSeq(kept)
        promo(u) == MFPromotion(st.fo[u].frame_type, dir)
        promoted == {u \in kept : promo(u)[1] # None}
        rotated == {u \in promoted : promo(u)[3] = "SFRS_columnY"}
        rez == model_options.enable_REZ
    IN  [fo |-> [u \in DOMAIN st.fo |->
                    IF u \notin kept THEN st.fo[u]
                    ELSE [st.fo[u] EXCEPT
                            !.is_lateral = TRUE,
                            !.frame_direction = dir,
                            !.frame_type = IF u \in promoted THEN promo(u)[1] ELSE @]],
         sf |-> [u \in DOMAIN st.sf |->
                    IF u \notin kept \/ ~SinkHas(st.sf, u) THEN st.sf[u]
                    ELSE [st.sf[u] EXCEPT
                            !.releases = "fixed",
                            !.rez = IF rez THEN TRUE ELSE @,
                            !.section = IF u \in promoted THEN df_MF[i][promo(u)[2]] ELSE @,
                            !.angle = IF u \in rotated THEN 90 ELSE @]],
         ix |-> [t \in DOMAIN st.ix |->
                    IF t = RoleTag("SFRS") THEN st.ix[t] \o keptSeq
                    ELSE IF t[1] = "role"
                    THEN st.ix[t] \o SelectSeq(keptSeq, LAMBDA u : u \in promoted
                                                          /\ promo(u)[3] = t[2])
                    ELSE st.ix[t]],
         calls |-> st.calls
                    \cup Calls("add_MFs", "set_releases", "frame", kept)
                    \cup (IF rez THEN Calls("add_MFs", "set_end_offset", "frame", kept) ELSE {})
                    \cup Calls("add_MFs", "set_section", "frame", promoted)
                    \cup Calls("add_MFs", "rotate_local_axis", "frame", rotated)]

RECURSIVE MFFold(_, _)
MFFold(st, cells) ==
    IF cells = <<>> THEN st
    ELSE MFFold(MFBay(st, Head(cells)[1], Head(cells)[2]), Tail(cells))

\* "parse string": split(";")[1] or split("-")[1] raises IndexError when the
\* cell has no ";" or no "-" (the missing part is None in the descriptor)
ParseRaises(d) == d.from = None \/ d.to = None

\* add_MFs, from the parse to relevant_member_id: IndexError of the parse, or
\* KeyError of x_grids[grid_to], y_grids[grid_from], y_grids[grid_to] or
\* index_for["on <grid_on>"]
MFRaises(d) ==
    \/ ParseRaises(d)
    \/ IF InGrid(x_grids, d.from) THEN ~InGrid(x_grids, d.to)
       ELSE ~InGrid(y_grids, d.from) \/ ~InGrid(y_grids, d.to)
    \/ OnTag(d.on) \notin DOMAIN index_for

\* The first bay cell at which a pass raises, 0 if none: raises[k] for cell k
FirstRaising(raises) ==
    IF \E k \in DOMAIN raises : raises[k]
    THEN CHOOSE k \in DOMAIN raises : raises[k] /\ \A j \in 1..(k - 1) : ~raises[j]
    ELSE 0

\* The bay cells a pass goes through before the exception at cell k, all if k = 0
CellsBefore(k) == IF k = 0 THEN BayCells ELSE SubSeq(BayCells, 1, k - 1)

\* The exception raised at cell k leaves run.py main: nothing handles it
Raised(pass, k) == IF k = 0 THEN NoTable ELSE [pass |-> pass, cell |-> k]

\* Structure.add_MFs, called by add_SFRS when df_MF is not None
AddMFs ==
    /\ pc = "add_MFs"
    /\ IF df_MF # NoTable
       THEN \E k \in {FirstRaising([j \in DOMAIN BayCells |-> MFRaises(BayCells[j][2])])} :
            \E st \in {MFFold([fo |-> frame_objects, sf |-> sink_frames, ix |-> index_for,
                               calls |-> sink_calls], CellsBefore(k))} :
                /\ frame_objects' = st.fo
                /\ sink_frames' = st.sf
                /\ index_for' = st.ix
                /\ sink_calls' = st.calls
                /\ error' = Raised("add_MFs", k)
                /\ pc' = IF k = 0 THEN "add_braces" ELSE "aborted"
       ELSE /\ UNCHANGED <<frame_objects, sink_frames, index_for, sink_calls, error>>
            /\ pc' = "add_braces"
    /\ UNCHANGED <<inputs, floor_names, floor_objects, index_for_walls, sink_areas,
                   sink_piers, sink_groups, pickled>>


(***************************************************************************)
(* Structure.add_braces and the five brace generators                      *)
(***************************************************************************)
\* ord(c) for a letter and int(s) for a numeral, as positions in the alphabets
LabelPos(alphabet, l) == CHOOSE i \in DOMAIN alphabet : alphabet[i] = l

\* [chr(x) for x in range(ord(start), ord(end)+1)] / [str(x) for x in range(int(start), int(end)+1)]
LabelRange(alphabet, start, end) ==
    LET a == LabelPos(alphabet, start)
        b == LabelPos(alphabet, end)
    IN  IF b < a THEN <<>> ELSE [k \in 1..(b - a + 1) |-> alphabet[a + k - 1]]

\* Mutant: the direction is named after the axis orthogonal to the grid line.
BayGeometryOrthogonal(d) ==
    IF InGrid(x_grids, d.on)
    THEN LET grid_range == LabelRange(Letters, d.from, d.to)
         IN  [direction |-> "Y", abscissa |-> GridOrd(x_grids, d.on),
              ordinate_range |-> [k \in DOMAIN grid_range |-> GridOrd(y_grids, grid_range[k])]]
    ELSE LET grid_range == LabelRange(Digits, d.from, d.to)
         IN  [direction |-> "X", abscissa |-> GridOrd(y_grids, d.on),
              ordinate_range |-> [k \in DOMAIN grid_range |-> GridOrd(x_grids, grid_range[k])]]

\* add_braces / add_walls "get coordinates": the family of grid_on decides the direction
BayGeometry(d) ==
    IF InGrid(x_grids, d.on)
    THEN LET grid_range == LabelRange(Letters, d.from, d.to)
         IN  [direction |-> "X", abscissa |-> GridOrd(x_grids, d.on),
              ordinate_range |-> [k \in DOMAIN grid_range |-> GridOrd(y_grids, grid_range[k])]]
    ELSE LET grid_range == LabelRange(Digits, d.from, d.to)
         IN  [direction |-> "Y", abscissa |-> GridOrd(y_grids, d.on),
              ordinate_range |-> [k \in DOMAIN grid_range |-> GridOrd(x_grids, grid_range[k])]]

\* add_braces / add_walls "get coordinates": KeyError of y_grids[grid_on] or of
\* the ordinate of a label of grid_range that is not a grid line
GeometryRaises(d) ==
    IF InGrid(x_grids, d.on)
    THEN \E l \in SeqToSet(LabelRange(Letters, d.from, d.to)) : ~InGrid(y_grids, l)
    ELSE \/ ~InGrid(y_grids, d.on)
         \/ \E l \in SeqToSet(LabelRange(Digits, d.from, d.to)) : ~InGrid(x_grids, l)

\* (ordinate, abscissa, z) in direction X, (abscissa, ordinate, z) in direction Y
BracePoint(direction, ordinate, abscissa, z) ==
    IF direction = "X" THEN <<ordinate, abscissa, z>> ELSE <<abscissa, ordinate, z>>

\* Mutant: the X pattern is made of its two full diagonals.
SubBayBracesFullDiagonals(config, direction, abscissa, o1, o2, z_current, z_below) ==
    LET P(o, z) == BracePoint(direction, o, abscissa, z)
        midpoint == (o2 + o1) \div 2
    IN  CASE config = "SingleA" -> << <<P(o1, z_below), P(o2, z_current)>> >>
          [] config = "SingleB" -> << <<P(o2, z_below), P(o1, z_current)>> >>
          [] config = "V" -> << <<P(o1, z_current), P(midpoint, z_below)>>,
                                <<P(midpoint, z_below), P(o2, z_current)>> >>
          [] config = "Chevron" -> << <<P(o1, z_below), P(midpoint, z_current)>>,
                                      <<P(midpoint, z_current), P(o2, z_below)>> >>
          [] config = "X" -> << <<P(o1, z_below), P(o2, z_current)>>,
                                <<P(o1, z_current), P(o2, z_below)>> >>

\* Mutant: SingleA and SingleB are exchanged.
SubBayBracesSinglesExchanged(config, direction, abscissa, o1, o2, z_current, z_below) ==
    LET P(o, z) == BracePoint(direction, o, abscissa, z)
        midpoint == (o2 + o1) \div 2
        z_mid == (z_current + z_below) \div 2
    IN  CASE config = "SingleA" -> << <<P(o2, z_below), P(o1, z_current)>> >>
          [] config = "SingleB" -> << <<P(o1, z_below), P(o2, z_current)>> >>
          [] config = "V" -> << <<P(o1, z_current), P(midpoint, z_below)>>,
                                <<P(midpoint, z_below), P(o2, z_current)>> >>
          [] config = "Chevron" -> << <<P(o1, z_below), P(midpoint, z_current)>>,
                                      <<P(midpoint, z_current), P(o2, z_below)>> >>
          [] config = "X" -> << <<P(o1, z_below), P(midpoint, z_mid)>>,
                                <<P(midpoint, z_mid), P(o2, z_current)>>,
                                <<P(o1, z_current), P(midpoint, z_mid)>>,
                                <<P(midpoint, z_mid), P(o2, z_below)>> >>

\* The end_coords of the braces of one sub-bay, in creation order
SubBayBraces(config, direction, abscissa, o1, o2, z_current, z_below) ==
    LET P(o, z) == BracePoint(direction, o, abscissa, z)
        midpoint == (o2 + o1) \div 2
        z_mid == (z_current + z_below) \div 2
    IN  CASE config = "SingleA" -> << <<P(o1, z_below), P(o2, z_current)>> >>
          [] config = "SingleB" -> << <<P(o2, z_below), P(o1, z_current)>> >>
          [] config = "V" -> << <<P(o1, z_current), P(midpoint, z_below)>>,
                                <<P(midpoint, z_below), P(o2, z_current)>> >>
          [] config = "Chevron" -> << <<P(o1, z_below), P(midpoint, z_current)>>,
                                      <<P(midpoint, z_current), P(o2, z_below)>> >>
          [] config = "X" -> << <<P(o1, z_below), P(midpoint, z_mid)>>,
                                <<P(midpoint, z_mid), P(o2, z_current)>>,
                                <<P(o1, z_current), P(midpoint, z_mid)>>,
                                <<P(midpoint, z_mid), P(o2, z_below)>> >>

\* _add_braces_singleA/singleB/V/chevron/X: the end_coords of every brace of a bay
BraceEnds(config, direction, abscissa, ordinate_range, z_current, z_below) ==
    IF Len(ordinate_range) < 2 THEN <<>>
    ELSE Flatten([k \in 1..(Len(ordinate_range) - 1) |->
                    SubBayBraces(config, direction, abscissa, ordinate_range[k],
                                 ordinate_range[k + 1], z_current, z_below)])

\* 'if "SingleA" in brace_config' / 'if "SingleB" in brace_config'
NormalizeConfig(brace_config) ==
    IF brace_config \in {"SingleA", "SingleA (/)"} THEN "SingleA"
    ELSE IF brace_config \in {"SingleB", "SingleB (\\)"} THEN "SingleB"
    ELSE brace_config

\* The braces add_braces creates for descriptor d of floor i: <<p0, p1>> each
BayBraces(i, d) ==
    LET g == BayGeometry(d)
        brace_config == IF g.direction = "X" THEN df_braces[i].x_config
                        ELSE df_braces[i].y_config
    IN  BraceEnds(NormalizeConfig(brace_config), g.direction, g.abscissa,
                  g.ordinate_range, ZCurrent(i), ZBelow(i))

\* One bay of add_braces (lines 507-547) applied to st = [sf, ix, calls]
BraceBay(st, i, d) ==
    LET floor_name == df_SFRSbays[i].floor_name
        g == BayGeometry(d)
        brace_section == IF g.direction = "X" THEN df_braces[i].x_brace
                         ELSE df_braces[i].y_brace
        index_group == IF g.direction = "X" THEN "SFRS_braceX" ELSE "SFRS_braceY"
        ends == BayBraces(i, d)
        base == Cardinality(DOMAIN st.sf)
        new == {base + k : k \in 1..Len(ends)}
        newSeq == [k \in 1..Len(ends) |-> base + k]
        rez == model_options.enable_REZ
        tags == {FloorTag(floor_name), OnTag(d.on), RoleTag("SFRS"), RoleTag(index_group)}
    IN  [sf |-> [u \in DOMAIN st.sf \cup new |->
                    IF u \in DOMAIN st.sf THEN st.sf[u]
                    ELSE [SinkFrame(NewFrame("SFRS_brace", floor_name, brace_section,
                                             ends[u - base][1], ends[u - base][2]))
                            EXCEPT !.releases = "fixed", !.rez = rez]],
         ix |-> [t \in DOMAIN st.ix |-> IF t \in tags THEN st.ix[t] \o newSeq ELSE st.ix[t]],
         calls |-> st.calls
                    \cup Calls("add_braces", "create_frame", "frame", new)
                    \cup Calls("add_braces", "set_releases", "frame", new)
                    \cup (IF rez THEN Calls("add_braces", "set_end_offset", "frame", new)
                          ELSE {})]

RECURSIVE BraceFold(_, _)
BraceFold(st, cells) ==
    IF cells = <<>> THEN st
    ELSE BraceFold(BraceBay(st, Head(cells)[1], Head(cells)[2]), Tail(cells))

\* add_braces, from the parse to brace_generator_funcs[brace_config]: the
\* errors of the parse and of the coordinates, or KeyError of the configuration
BraceRaises(i, d) ==
    \/ ParseRaises(d)
    \/ GeometryRaises(d)
    \/ NormalizeConfig(IF BayGeometry(d).direction = "X" THEN df_braces[i].x_config
                        ELSE df_braces[i].y_config) \notin BraceConfigs

\* Structure.add_braces, called by add_SFRS when df_braces is not None
AddBraces ==
    /\ pc = "add_braces"
    /\ IF df_braces # NoTable
       THEN \E k \in {FirstRaising([j \in DOMAIN BayCells |->
                                      BraceRaises(BayCells[j][1], BayCells[j][2])])} :
            \E st \in {BraceFold([sf |-> sink_frames, ix |-> index_for,
                                  calls |-> sink_calls], CellsBefore(k))} :
                /\ sink_frames' = st.sf
                /\ index_for' = st.ix
                /\ sink_calls' = st.calls
                /\ error' = Raised("add_braces", k)
                /\ pc' = IF k = 0 THEN "add_walls" ELSE "aborted"
       ELSE /\ UNCHANGED <<sink_frames, index_for, sink_calls, error>>
            /\ pc' = "add_walls"
    /\ UNCHANGED <<inputs, floor_names, floor_objects, frame_objects, index_for_walls,
                   sink_areas, sink_piers, sink_groups, pickled>>

(***************************************************************************)
(* Structure.add_walls                                                     *)
(***************************************************************************)
\* The 4 vertices of the wall panel of one sub-bay
WallVertices(direction, abscissa, o1, o2, z_current, z_below) ==
    << BracePoint(direction, o1, abscissa, z_current),
       BracePoint(direction, o2, abscissa, z_current),
       BracePoint(direction, o2, abscissa, z_below),
       BracePoint(direction, o1, abscissa, z_below) >>

\* Mutant: one panel from the first to the last grid line of the range.
BayWallsWholeRange(i, d) ==
    LET g == BayGeometry(d)
        r == g.ordinate_range
    IN  IF Len(r) < 2 THEN <<>>
        ELSE << WallVertices(g.direction, g.abscissa, r[1], r[Len(r)], ZCurrent(i), ZBelow(i)) >>

\* The panels add_walls creates for descriptor d of floor i
BayWalls(i, d) ==
    LET g == BayGeometry(d)
        r == g.ordinate_range
    IN  IF Len(r) < 2 THEN <<>>
        ELSE [k \in 1..(Len(r) - 1) |->
                WallVertices(g.direction, g.abscissa, r[k], r[k + 1], ZCurrent(i), ZBelow(i))]

\* One bay of add_walls (lines 575-634) applied to st = [sa, ixw, piers, calls]
WallBay(st, i, d) ==
    LET floor_name == df_SFRSbays[i].floor_name
        pier_label == <<floor_name, d>>
        g == BayGeometry(d)
        section == IF g.direction = "X" THEN df_walls[i].x_wall ELSE df_walls[i].y_wall
        role == IF g.direction = "X" THEN "SFRS_wallX" ELSE "SFRS_wallY"
        panels == BayWalls(i, d)
        base == Cardinality(DOMAIN st.sa)
        new == {base + k : k \in 1..Len(panels)}
        newSeq == [k \in 1..Len(panels) |-> base + k]
        tags == {FloorTag(floor_name), OnTag(d.on), RoleTag(role)}
    IN  [sa |-> [u \in DOMAIN st.sa \cup new |->
                    IF u \in DOMAIN st.sa THEN st.sa[u]
                    ELSE [kind |-> "wall", vertices |-> panels[u - base],
                          section |-> section, pier |-> pier_label]],
         ixw |-> [t \in DOMAIN st.ixw |->
                    IF t \in tags THEN st.ixw[t] \o newSeq ELSE st.ixw[t]],
         piers |-> IF new = {} THEN st.piers ELSE st.piers \cup {pier_label},
         calls |-> st.calls
                    \cup Calls("add_walls", "create_wall", "area", new)
                    \cup Calls("add_walls", "set_pier", "area", new)]

RECURSIVE WallFold(_, _)
WallFold(st, cells) ==
    IF cells = <<>> THEN st
    ELSE WallFold(WallBay(st, Head(cells)[1], Head(cells)[2]), Tail(cells))

\* Mutant: the pier labels of the sink are left as they are.
PiersKeptAll(piers) == piers

\* "# delete piers previously defined": every label of GetNameList but "P1"
PiersKept(piers) == piers \cap {P1}

\* add_walls, from the parse to ordinate_range
WallRaises(d) == ParseRaises(d) \/ GeometryRaises(d)

\* Structure.add_walls, called by add_SFRS when df_walls is not None
AddWalls ==
    /\ pc = "add_walls"
    /\ IF df_walls # NoTable
       THEN \E k \in {FirstRaising([j \in DOMAIN BayCells |-> WallRaises(BayCells[j][2])])} :
            \E st \in {WallFold([sa |-> sink_areas, ixw |-> index_for_walls,
                                 piers |-> PiersKept(sink_piers),
                                 calls |-> sink_calls], CellsBefore(k))} :
                /\ sink_areas' = st.sa
                /\ index_for_walls' = st.ixw
                /\ sink_piers' = st.piers
                /\ sink_calls' = st.calls
                /\ error' = Raised("add_walls", k)
                /\ pc' = IF k = 0 THEN "set_base_fixity" ELSE "aborted"
       ELSE /\ UNCHANGED <<sink_areas, index_for_walls, sink_piers, sink_calls, error>>
            /\ pc' = "set_base_fixity"
    /\ UNCHANGED <<inputs, floor_names, floor_objects, frame_objects, index_for,
                   sink_frames, sink_groups, pickled>>


(***************************************************************************)
(* Structure.set_base_fixity, Structure.set_groups, pickle.dump            *)
(***************************************************************************)
\* Structure.set_base_fixity: restrains points only, and only for a "Fixed" base
SetBaseFixity ==
    /\ pc = "set_base_fixity"
    /\ sink_calls' = IF model_options.base_fixity = "Fixed"
                     THEN sink_calls \cup Calls("set_base_fixity", "set_base_restraint",
                                                "point", {0})
                     ELSE sink_calls
    /\ pc' = "set_groups"
    /\ UNCHANGED <<inputs, error, floor_names, floor_objects, frame_objects, index_for,
                   index_for_walls, sink_frames, sink_areas, sink_piers, sink_groups,
                   pickled>>

\* set_groups: the (group, kind, index list) assignments in the order of the code
GroupAssignments ==
    << <<"ALL LATERAL", "frame", index_for[RoleTag("SFRS")]>>,
       <<"ALL LATERAL", "area", index_for_walls[RoleTag("SFRS_wallX")]>>,
       <<"ALL LATERAL", "area", index_for_walls[RoleTag("SFRS_wallY")]>>,
       <<"SFRS_BM X", "frame", index_for[RoleTag("SFRS_beamX")]>>,
       <<"SFRS_BM Y", "frame", index_for[RoleTag("SFRS_beamY")]>>,
       <<"SFRS_COL X", "frame", index_for[RoleTag("SFRS_columnX")]>>,
       <<"SFRS_COL Y", "frame", index_for[RoleTag("SFRS_columnY")]>>,
       <<"SFRS_BRACE X", "frame", index_for[RoleTag("SFRS_braceX")]>>,
       <<"SFRS_BRACE Y", "frame", index_for[RoleTag("SFRS_braceY")]>>,
       <<"SFRS_WALL X", "area", index_for_walls[RoleTag("SFRS_wallX")]>>,
       <<"SFRS_WALL Y", "area", index_for_walls[RoleTag("SFRS_wallX")]>> >>

group_list ==
    {"SFRS_BM X", "SFRS_BM Y", "SFRS_COL X", "SFRS_COL Y", "SFRS_BRACE X", "SFRS_BRACE Y",
     "SFRS_WALL X", "SFRS_WALL Y"}

\* SetGroupAssign takes effect only on an object and a group the sink has
SinkHasObject(kind, u) ==
    IF kind = "frame" THEN SinkHas(sink_frames, u) ELSE u \in DOMAIN sink_areas

\* Structure.set_groups
SetGroups ==
    /\ pc = "set_groups"
    /\ \E ga \in {GroupAssignments} :
         /\ sink_groups' =
              [g \in DOMAIN sink_groups \cup group_list |->
                  (IF g \in group_list THEN {} ELSE sink_groups[g])
                  \cup UNION {{<<ga[k][2], u>> : u \in {v \in SeqToSet(ga[k][3]) :
                                                          SinkHasObject(ga[k][2], v)}} :
                              k \in {j \in DOMAIN ga : ga[j][1] = g}}]
         /\ sink_calls' = sink_calls
              \cup UNION {Calls("set_groups", "assign_to_group", ga[k][2], SeqToSet(ga[k][3])) :
                          k \in DOMAIN ga}
    /\ pc' = "pickle"
    /\ UNCHANGED <<inputs, error, floor_names, floor_objects, frame_objects, index_for,
                   index_for_walls, sink_frames, sink_areas, sink_piers, pickled>>

\* run.py: pickle.dump(Structure, f)
Pickle ==
    /\ pc = "pickle"
    /\ pickled' = [floor_names |-> floor_names, floor_objects |-> floor_objects,
                   frame_objects |-> frame_objects, index_for |-> index_for,
                   index_for_walls |-> index_for_walls]
    /\ pc' = "update_1"
    /\ UNCHANGED <<inputs, error, floor_names, floor_objects, frame_objects, index_for,
                   index_for_walls, sink_frames, sink_areas, sink_piers, sink_groups,
                   sink_calls>>

(***************************************************************************)
(* update.py main: the resync pass on the loaded Structure                 *)
(***************************************************************************)
\* The section assignments of floor i in the order of the code:
\* <<kind, index, role tag, new section>>
UpdateSteps(S, i) ==
    LET t == update_tables
    IN  << <<"frame", S.index_for, RoleTag("column"), t.df_floors[i].column>>,
           <<"frame", S.index_for, RoleTag("girder"), t.df_floors[i].girder>>,
           <<"frame", S.index_for, RoleTag("beam"), t.df_floors[i].beam>> >>
        \o (IF t.df_MF # NoTable
            THEN << <<"frame", S.index_for, RoleTag("SFRS_beamX"), t.df_MF[i].x_beam>>,
                    <<"frame", S.index_for, RoleTag("SFRS_beamY"), t.df_MF[i].y_beam>>,
                    <<"frame", S.index_for, RoleTag("SFRS_columnX"), t.df_MF[i].x_column>>,
                    <<"frame", S.index_for, RoleTag("SFRS_columnY"), t.df_MF[i].y_column>> >>
            ELSE <<>>)
        \o (IF t.df_braces # NoTable
            THEN << <<"frame", S.index_for, RoleTag("SFRS_braceX"), t.df_braces[i].x_brace>>,
                    <<"frame", S.index_for, RoleTag("SFRS_braceY"), t.df_braces[i].y_brace>> >>
            ELSE <<>>)
        \o (IF t.df_walls # NoTable
            THEN << <<"area", S.index_for_walls, RoleTag("SFRS_wallX"), t.df_walls[i].x_wall>>,
                    <<"area", S.index_for_walls, RoleTag("SFRS_wallY"), t.df_walls[i].y_wall>> >>
            ELSE <<>>)

\* Every step of the pass: <<kind, relevant_members, new section>>, floor by floor
UpdateAssignments(S) ==
    Flatten([i \in 1..Len(S.floor_names) |->
                LET steps == UpdateSteps(S, i)
                IN  [k \in DOMAIN steps |->
                        <<steps[k][1],
                          SeqToSet(steps[k][2][FloorTag(S.floor_names[i])])
                              \cap SeqToSet(steps[k][2][steps[k][3]]),
                          steps[k][4]>>]])

\* Mutant: an assignment is skipped for a member whose section at the start of the
\* pass already was the new one.
RECURSIVE ApplyUnlessCurrent(_, _, _)
ApplyUnlessCurrent(st0, st, steps) ==
    IF steps = <<>> THEN st
    ELSE LET kind == Head(steps)[1]
             members == Head(steps)[2]
             section == Head(steps)[3]
         IN  ApplyUnlessCurrent(st0,
                [sf |-> IF kind # "frame" THEN st.sf
                        ELSE [u \in DOMAIN st.sf |->
                                IF u \in members /\ SinkHas(st.sf, u)
                                      /\ st0.sf[u].section # section
                                THEN [st.sf[u] EXCEPT !.section = section]
                                ELSE st.sf[u]],
                 sa |-> IF kind # "area" THEN st.sa
                        ELSE [u \in DOMAIN st.sa |->
                                IF u \in members /\ st0.sa[u].section # section
                                THEN [st.sa[u] EXCEPT !.section = section]
                                ELSE st.sa[u]]],
                Tail(steps))

ApplySectionsUnlessCurrent(st, steps) == ApplyUnlessCurrent(st, st, steps)

\* Mutant: every frame whose section is assigned is also released again as pinned.
RECURSIVE ApplySectionsRerelease(_, _)
ApplySectionsRerelease(st, steps) ==
    IF steps = <<>> THEN st
    ELSE LET kind == Head(steps)[1]
             members == Head(steps)[2]
             section == Head(steps)[3]
         IN  ApplySectionsRerelease(
                [sf |-> IF kind # "frame" THEN st.sf
                        ELSE [u \in DOMAIN st.sf |->
                                IF u \in members /\ SinkHas(st.sf, u)
                                THEN [st.sf[u] EXCEPT !.section = section,
                                                      !.releases = "pinned"]
                                ELSE st.sf[u]],
                 sa |-> IF kind # "area" THEN st.sa
                        ELSE [u \in DOMAIN st.sa |->
                                IF u \in members
                                THEN [st.sa[u] EXCEPT !.section = section]
                                ELSE st.sa[u]]],
                Tail(steps))

\* FrameObj.SetSection / AreaObj.SetProperty for every step, in order
RECURSIVE ApplySections(_, _)
ApplySections(st, steps) ==
    IF steps = <<>> THEN st
    ELSE LET kind == Head(steps)[1]
             members == Head(steps)[2]
             section == Head(steps)[3]
         IN  ApplySections(
                [sf |-> IF kind # "frame" THEN st.sf
                        ELSE [u \in DOMAIN st.sf |->
                                IF u \in members /\ SinkHas(st.sf, u)
                                THEN [st.sf[u] EXCEPT !.section = section]
                                ELSE st.sf[u]],
                 sa |-> IF kind # "area" THEN st.sa
                        ELSE [u \in DOMAIN st.sa |->
                                IF u \in members
                                THEN [st.sa[u] EXCEPT !.section = section]
                                ELSE st.sa[u]]],
                Tail(steps))

\* update.py main (a run of the resync pass)
Update ==
    /\ pc \in {"update_1", "update_2"}
    /\ pickled # NoTable
    /\ \E steps \in {UpdateAssignments(pickled)} :
         /\ \E st \in {ApplySections([sf |-> sink_frames, sa |-> sink_areas], steps)} :
                /\ sink_frames' = st.sf
                /\ sink_areas' = st.sa
         /\ sink_calls' = sink_calls
              \cup UNION {Calls(pc, IF steps[k][1] = "frame" THEN "set_section"
                                    ELSE "set_wall_property", steps[k][1], steps[k][2]) :
                          k \in DOMAIN steps}
    /\ pc' = IF pc = "update_1" THEN "update_2" ELSE "done"
    /\ UNCHANGED <<inputs, error, floor_names, floor_objects, frame_objects, index_for,
                   index_for_walls, sink_piers, sink_groups, pickled>>

Next ==
    \/ CreateElevations
    \/ CreateGrids
    \/ CreateFloors
    \/ CreateFrames
    \/ DeleteFrames
    \/ AddMFs
    \/ AddBraces
    \/ AddWalls
    \/ SetBaseFixity
    \/ SetGroups
    \/ Pickle
    \/ Update

Spec == Init /\ [][Next]_vars

(***************************************************************************)
(* Faults: bay cells that do not follow "<on>;<from>-<to>", labels that    *)
(* are no grid lines, an unknown brace configuration, and a sink that      *)
(* fails to add one frame of the lattice.                                  *)
(***************************************************************************)
\* "1" has no ";", "1;A" has no "-", "E" and "5" are no grid lines
BadDescs == {Desc("1", None, None), Desc("1", "A", None), Desc("1", "A", "E"),
             Desc("5", "A", "B")}

GoodDescs == {Desc("1", "A", "B"), Desc("A", "1", "2")}

\* A token that is no key of brace_generator_funcs
UnknownConfig == "K"

\* y grid lines labelled A and C: B, between them, is no grid line
GapLetters == <<"A", "C", "E">>

\* <<df_MF, brace config, df_walls>>
FaultyLatKinds ==
    {<<TRUE, None, FALSE>>, <<FALSE, "X", FALSE>>, <<FALSE, None, TRUE>>,
     <<TRUE, "X", TRUE>>, <<TRUE, UnknownConfig, FALSE>>, <<FALSE, UnknownConfig, TRUE>>,
     <<TRUE, UnknownConfig, TRUE>>}

\* The frames create_frames adds for input c
LatticeSize(c) ==
    c.nf * (c.nx * c.ny + c.nx * (c.ny - 1) + c.ny * (c.nx - 1)
            + c.n_infill * (c.nx - 1) * (c.ny - 1))

\* Two floors on a 2 x 2 grid: <<input, y labels, failing AddByCoord>>
FaultyInputs ==
    {<<InputCfg(2, 2, 2, "big", "big", 0, <<d1, d2>>, <<d3, NaN>>, k[1], k[2], k[3], FALSE),
       Letters, 0>> :
        d1 \in BadDescs \cup GoodDescs, d2 \in BadDescs \cup GoodDescs,
        d3 \in {Desc("A", "1", "2"), Desc("1", "A", "E")}, k \in FaultyLatKinds}
    \cup
    {<<InputCfg(2, 2, 2, "big", "big", 0, <<Desc("1", "A", "C"), d2>>,
                <<Desc("A", "1", "2"), NaN>>, k[1], k[2], k[3], FALSE),
       GapLetters, 0>> :
        d2 \in {NaN, Desc("A", "1", "2")}, k \in FaultyLatKinds}
    \cup
    {<<c, Letters, fail>> :
        c \in {InputCfg(2, 2, 2, kt, "big", 1, <<Desc("1", "A", "B"), Desc("A", "1", "2")>>,
                        <<Desc("A", "1", "2"), NaN>>, TRUE, "X", TRUE, rez) :
                    kt \in {"big", "small"}, rez \in BOOLEAN},
        fail \in 1..LatticeSize(InputCfg(2, 2, 2, "big", "big", 1, <<NaN, NaN>>,
                                         <<NaN, NaN>>, TRUE, "X", TRUE, FALSE))}

\* A floor_height (feet) typed for the top floor that is not the difference
\* between its floor_elev and the floor_elev of the next record.
TallTopHeight == 2

TallTopInputs ==
    {InputCfg(2, 2, MaxFloors, kt, "big", 0, <<Desc("1", "A", "B"), NaN>>,
              <<Desc("A", "1", "2"), NaN>>, TRUE, None, FALSE, FALSE) :
        kt \in {"big", "small"}}

InitFaulty ==
    \/ \E f \in FaultyInputs : InitFrom(f[1], f[2], f[3])
    \/ \E c \in TallTopInputs :
          InitIn(c, Letters, 0, Surroundings({P1}, TallTopHeight, TRUE))

SpecFaulty == InitFaulty /\ [][Next]_vars

(***************************************************************************)
(* A later session: the generation attaches to an ETABS model in which an  *)
(* earlier run left its pier labels, or the moment-frame table has been    *)
(* cleared in the workbook before update.py reads it.                      *)
(***************************************************************************)
\* A pier label that no run of the generator creates.
ForeignPier == <<"P2">>

\* The lateral systems with walls or moment frames, on the 2 x MaxGrid grid.
RerunConfigs ==
    {InputCfg(2, MaxGrid, MaxFloors, k[5], "big", 0, <<d1, Desc("A", "1", "2")>>,
              <<Desc("A", "1", "2"), NaN>>, k[1], k[2], k[3], k[4]) :
        d1 \in XBayDescs(2, MaxGrid) \cup YBayDescs(2, MaxGrid) \cup {NaN},
        k \in {l \in LatKinds : l[1] \/ l[3]}}

\* The pier labels floor_name + "_" + descriptor of the cells of input c.
RunPiers(c) ==
    {<<FloorNameSeq[1], d>> : d \in SeqToSet(c.rowTop) \ {NaN}}
        \cup {<<FloorNameSeq[i], d>> : i \in 2..c.nf, d \in SeqToSet(c.rowRest) \ {NaN}}

RerunSurroundings(c) ==
    {Surroundings({P1} \cup p, 1, TRUE) :
        p \in {{ForeignPier}, RunPiers(c) \cup {ForeignPier}}}
    \cup {Surroundings({P1}, 1, FALSE)}

InitRerun ==
    \E c \in RerunConfigs : \E env \in RerunSurroundings(c) : InitIn(c, Letters, 0, env)

SpecRerun == InitRerun /\ [][Next]_vars


(***************************************************************************)
(* Properties of the generated lattice.                                    *)
(***************************************************************************)
\* The ids filed under tag t, as a set.
TagSet(t) == SeqToSet(index_for[t])

\* The ids filed under both tags.
Both(t1, t2) == TagSet(t1) \cap TagSet(t2)

\* The floor names of the floor table.
FloorNames == {df_floors[i].floor_name : i \in 1..Len(df_floors)}

\* The ids filed under "on <g>" for some grid line g of the family.
OnFamily(grids) == UNION {TagSet(OnTag(grids[k].label)) : k \in 1..Len(grids)}

\* C1: immediately after create_frames, every floor holds exactly
\* |x_grids| * |y_grids| column ids: the intersection of the floor's tag and
\* the "column" tag has that many elements.
C1_ColumnsPerFloor ==
    pc = "delete_frames" =>
        \A f \in FloorNames :
            Cardinality(Both(FloorTag(f), RoleTag("column")))
                = Len(x_grids) * Len(y_grids)

\* A grid with different numbers of lines per family, two storeys, columns created.
C1_Witness ==
    /\ pc = "delete_frames"
    /\ Len(x_grids) = 2
    /\ Len(y_grids) = 3
    /\ Len(df_floors) = 2
    /\ Cardinality(TagSet(RoleTag("column"))) = 12

\* C2: immediately after create_frames, every floor holds |x_grids| * (|y_grids| - 1)
\* girders and |y_grids| * (|x_grids| - 1) on-grid beams (the beams filed under a
\* y grid line); without infill these are all the beams, so a 2 x 2 grid with one
\* floor and n_infill = 0 yields 4 columns, 2 girders and 2 beams.
C2_GirdersAndBeamsPerFloor ==
    pc = "delete_frames" =>
        /\ \A f \in FloorNames :
            /\ Cardinality(Both(FloorTag(f), RoleTag("girder")))
                   = Len(x_grids) * (Len(y_grids) - 1)
            /\ Cardinality(Both(FloorTag(f), RoleTag("beam")) \cap OnFamily(y_grids))
                   = Len(y_grids) * (Len(x_grids) - 1)
            /\ model_options.n_infill = 0 =>
                   Both(FloorTag(f), RoleTag("beam")) \subseteq OnFamily(y_grids)
        /\ (Len(x_grids) = 2 /\ Len(y_grids) = 2 /\ Len(df_floors) = 1
                /\ model_options.n_infill = 0) =>
              /\ Cardinality(TagSet(RoleTag("column"))) = 4
              /\ Cardinality(TagSet(RoleTag("girder"))) = 2
              /\ Cardinality(TagSet(RoleTag("beam"))) = 2
              /\ Cardinality(DOMAIN frame_objects) = 8

\* The 2 x 2 single-floor lattice without infill, and its eight members.
C2_Witness ==
    /\ pc = "delete_frames"
    /\ Len(x_grids) = 2
    /\ Len(y_grids) = 2
    /\ Len(df_floors) = 1
    /\ model_options.n_infill = 0
    /\ Cardinality(DOMAIN sink_frames) = 8


(***************************************************************************)
(* Properties of boundary trimming (delete_frames).                        *)
(***************************************************************************)
\* The projected end points of member u.
End1(u) == Project(frame_objects[u].end_coords[1])

End2(u) == Project(frame_objects[u].end_coords[2])

\* The boundary polygon of the i-th floor.
FloorPoly(i) == floor_objects[floor_names[i]].vertices

\* The members filed under the i-th floor.
FloorMembers(i) == TagSet(FloorTag(floor_names[i]))

\* Member u is deleted as a whole: delete_member was issued on the model, the
\* Frame and the model object are marked, and the id is filed under "deleted".
DeletedWhole(u) ==
    /\ frame_objects[u].deleted
    /\ sink_frames[u].deleted
    /\ u \in TagSet(RoleTag("deleted"))
    /\ <<"delete_frames", "delete_member", "frame", u>> \in sink_calls

\* Member u is untouched by delete_frames.
Retained(u) ==
    /\ ~frame_objects[u].deleted
    /\ ~sink_frames[u].deleted
    /\ u \notin TagSet(RoleTag("deleted"))
    /\ <<"delete_frames", "delete_member", "frame", u>> \notin sink_calls

\* C3: delete_frames deletes, as a whole, every member of a floor that has at
\* least one projected end point outside the floor's polygon; no member is
\* split, clipped or created: the members and their end points are those of
\* create_frames and the only model call of the pass is delete_member.
C3_OutsideEndpointDeletesWhole ==
    pc = "add_MFs" =>
        /\ \A i \in 1..Len(floor_names) : \A poly \in {FloorPoly(i)} :
           \A u \in FloorMembers(i) :
              (~PointCovered(End1(u), poly) \/ ~PointCovered(End2(u), poly))
                  => DeletedWhole(u)
        /\ DOMAIN sink_frames = DOMAIN frame_objects
        /\ \A plans \in {LatticePlans} :
              /\ Cardinality(DOMAIN sink_frames) = Len(plans)
              /\ \A u \in DOMAIN sink_frames :
                    /\ sink_frames[u].end_coords = frame_objects[u].end_coords
                    /\ frame_objects[u].end_coords = plans[u].frame.end_coords
        /\ \A c \in sink_calls : c[1] = "delete_frames" => c[2] = "delete_member"

\* A member with one end strictly inside and the other outside was deleted whole.
C3_Witness ==
    /\ pc = "add_MFs"
    /\ \E i \in 1..Len(floor_names) : \E u \in FloorMembers(i) :
          /\ InInterior(End1(u), FloorPoly(i))
          /\ ~PointCovered(End2(u), FloorPoly(i))
          /\ DeletedWhole(u)


\* Every point of the projected segment of u at half-inch spacing lies within or on
\* the boundary of poly (grid lines and polygon vertices have whole-inch coordinates).
WholeSegmentCovered(u, poly) ==
    \A poly2 \in {[k \in DOMAIN poly |-> <<2 * poly[k][1], 2 * poly[k][2]>>]} :
    \A a \in {End1(u)} : \A b \in {End2(u)} :
    \A x \in (2 * Min2(a[1], b[1]))..(2 * Max2(a[1], b[1])) :
    \A y \in (2 * Min2(a[2], b[2]))..(2 * Max2(a[2], b[2])) :
        PointCovered(<<x, y>>, poly2)

BothEndsCovered(u, poly) == PointCovered(End1(u), poly) /\ PointCovered(End2(u), poly)

\* No reflex corner: all turns of the vertex cycle have the same orientation.
IsConvex(poly) ==
    LET n == Len(poly)
        turn(k) == Cross(poly[k], poly[(k % n) + 1], poly[((k + 1) % n) + 1])
    IN  (\A k \in 1..n : turn(k) >= 0) \/ (\A k \in 1..n : turn(k) <= 0)

\* The rectangle spanned by the outermost grid lines.
GridExtentsRect ==
    LET W == y_grids[Len(y_grids)].ord
        H == x_grids[Len(x_grids)].ord
    IN  << <<0, 0>>, <<W, 0>>, <<W, H>>, <<0, H>> >>

\* C4 (as stated): delete_frames retains every member whose two projected end
\* points both lie within or on the boundary of its floor's polygon.
C4_BothEndsCoveredRetained ==
    pc = "add_MFs" =>
        \A i \in 1..Len(floor_names) : \A u \in FloorMembers(i) :
            BothEndsCovered(u, FloorPoly(i)) => Retained(u)

\* C4 (amended): delete_frames retains every member whose whole projected
\* segment lies within or on the boundary of its floor's polygon, and deletes
\* every other member of the floor; for a convex polygon these are the members
\* with both end points within or on the boundary, so a member along a boundary
\* edge is retained and a rectangle matching the grid extents deletes nothing.
C4_WholeSegmentCoveredRetained ==
    pc = "add_MFs" =>
        \A i \in 1..Len(floor_names) : \A poly \in {FloorPoly(i)} :
        \A convex \in {IsConvex(poly)} : \A u \in FloorMembers(i) :
        \A whole \in {WholeSegmentCovered(u, poly)} :
            /\ whole <=> Retained(u)
            /\ ~whole <=> DeletedWhole(u)
            /\ (convex /\ BothEndsCovered(u, poly)) => Retained(u)
            /\ poly = GridExtentsRect => Retained(u)

\* A floor bounded by the grid-extents rectangle kept all its members, some of
\* them along its edges; another member, both ends on a re-entrant boundary, went.
C4_Witness ==
    /\ pc = "add_MFs"
    /\ \E i \in 1..Len(floor_names) :
          /\ FloorPoly(i) = GridExtentsRect
          /\ \E u \in FloorMembers(i) :
                /\ End1(u) # End2(u)
                /\ OnBoundary(End1(u), FloorPoly(i))
                /\ OnBoundary(End2(u), FloorPoly(i))
                /\ Retained(u)
          /\ \A u \in FloorMembers(i) : Retained(u)

\* C5 (as stated): once delete_frames has run, an id filed under "deleted" is
\* filed under no other tag of the index.
C5_DeletedOnlyUnderDeleted ==
    pc \notin {"create_elevations", "create_grids", "create_floors", "create_frames",
               "delete_frames"} =>
        \A u \in TagSet(RoleTag("deleted")) :
            \A t \in DOMAIN index_for \ {RoleTag("deleted")} : u \notin TagSet(t)

(***************************************************************************)
(* Properties of the resync pass (update.py).                              *)
(***************************************************************************)
\* The generation-time index and object table, and the loaded copy of them.
IndexState == <<index_for, index_for_walls, frame_objects, floor_names, pickled>>

\* C6: resync is idempotent. The second run of the pass on the same loaded index
\* with the same section tables leaves every id's section in the model as the
\* first run left it, creates no id, and leaves every tag's membership and the
\* number of ids unchanged.
C6_ResyncIdempotent ==
    [][(pc = "update_2" =>
          /\ DOMAIN sink_frames' = DOMAIN sink_frames
          /\ DOMAIN sink_areas' = DOMAIN sink_areas
          /\ \A u \in DOMAIN sink_frames : sink_frames'[u].section = sink_frames[u].section
          /\ \A w \in DOMAIN sink_areas : sink_areas'[w].section = sink_areas[w].section
          /\ IndexState' = IndexState)]_vars

\* Both runs are over; the first one replaced the section of a promoted column
\* (filed under "column" and under "SFRS_columnX") by the fresh moment-column size.
C6_Witness ==
    /\ pc = "done"
    /\ \E u \in Both(RoleTag("column"), RoleTag("SFRS_columnX")) :
          /\ ~sink_frames[u].deleted
          /\ sink_frames[u].section[1] = "x_column"
          /\ sink_frames[u].section[3] = "v2"
    /\ \E c \in sink_calls : c[1] = "update_2" /\ c[2] = "set_section"

\* C7: a run of the resync pass issues only section assignments on the model
\* (set_section on frame ids, the wall property on wall ids); it creates,
\* deletes, releases, rotates and moves nothing, and leaves index_for,
\* index_for_walls, frame_objects and every member's end points and id unchanged.
C7_ResyncOnlyAssignsSections ==
    [][(pc \in {"update_1", "update_2"} =>
          /\ \A c \in sink_calls' \ sink_calls :
                \/ c[2] = "set_section" /\ c[3] = "frame" /\ c[4] \in DOMAIN sink_frames
                \/ c[2] = "set_wall_property" /\ c[3] = "area" /\ c[4] \in DOMAIN sink_areas
          /\ DOMAIN sink_frames' = DOMAIN sink_frames
          /\ DOMAIN sink_areas' = DOMAIN sink_areas
          /\ \A u \in DOMAIN sink_frames :
                [sink_frames'[u] EXCEPT !.section = sink_frames[u].section] = sink_frames[u]
          /\ \A w \in DOMAIN sink_areas :
                [sink_areas'[w] EXCEPT !.section = sink_areas[w].section] = sink_areas[w]
          /\ sink_piers' = sink_piers
          /\ sink_groups' = sink_groups
          /\ IndexState' = IndexState)]_vars

\* A run of the pass has assigned fresh sections to frames and to a wall panel.
C7_Witness ==
    /\ pc = "update_2"
    /\ \E u \in DOMAIN sink_frames :
          /\ sink_frames[u].section[3] = "v2"
          /\ sink_frames[u].releases = "fixed"
          /\ <<"update_1", "set_section", "frame", u>> \in sink_calls
    /\ \E w \in DOMAIN sink_areas :
          /\ sink_areas[w].section[3] = "v2"
          /\ <<"update_1", "set_wall_property", "area", w>> \in sink_calls


(***************************************************************************)
(* Properties of the bay descriptors "<on>;<from>-<to>".                   *)
(***************************************************************************)
\* <<family of on, family of from and to>>, both ways round.
Families == {<<x_grids, y_grids>>, <<y_grids, x_grids>>}

\* The members of floor i on grid line d.on with both ends between the lower and
\* the higher of the two ordinates, measured along the grid line.
InBayMembers(i, d) ==
    LET fam == IF InGrid(x_grids, d.on) THEN y_grids ELSE x_grids
        c == IF InGrid(x_grids, d.on) THEN 1 ELSE 2
        lo == Min2(GridOrd(fam, d.from), GridOrd(fam, d.to))
        hi == Max2(GridOrd(fam, d.from), GridOrd(fam, d.to))
    IN  {u \in Both(FloorTag(df_SFRSbays[i].floor_name), OnTag(d.on)) :
            \A e \in 1..2 : /\ lo <= frame_objects[u].end_coords[e][c]
                            /\ frame_objects[u].end_coords[e][c] <= hi}

\* C8: in moment-frame classification the bay range does not depend on the order
\* of the labels: "on;a-b" and "on;b-a" both resolve to (min, max) of the two
\* ordinates and classify the same members, and the members add_MFs files under
\* "SFRS" are those between the lower and the higher ordinate of each bay.
C8_MFBayLabelOrderIrrelevant ==
    /\ pc = "add_MFs" =>
          \A fam \in Families : \A on \in GridLabels(fam[1]) :
          \A a \in GridLabels(fam[2]) : \A b \in GridLabels(fam[2]) :
              /\ MFBayRange(Desc(on, a, b)).ordinate_from
                    = Min2(GridOrd(fam[2], a), GridOrd(fam[2], b))
              /\ MFBayRange(Desc(on, a, b)).ordinate_to
                    = Max2(GridOrd(fam[2], a), GridOrd(fam[2], b))
              /\ MFBayRange(Desc(on, b, a)) = MFBayRange(Desc(on, a, b))
              /\ \A f \in FloorNames :
                    MFKept(frame_objects, index_for, f, Desc(on, b, a))
                        = MFKept(frame_objects, index_for, f, Desc(on, a, b))
    /\ (pc = "add_braces" /\ df_MF # NoTable) =>
          TagSet(RoleTag("SFRS"))
              = UNION {InBayMembers(c[1], c[2]) : c \in SeqToSet(BayCells)}

\* add_MFs has classified a bay written with the higher label first, and the
\* girders or beams between the two grid lines are filed under "SFRS".
C8_Witness ==
    /\ pc = "add_braces"
    /\ df_MF # NoTable
    /\ \E c \in SeqToSet(BayCells) :
          LET d == c[2]
              fam == IF InGrid(x_grids, d.on) THEN y_grids ELSE x_grids
          IN  /\ GridOrd(fam, d.from) > GridOrd(fam, d.to)
              /\ \E u \in InBayMembers(c[1], d) :
                    /\ u \in TagSet(RoleTag("SFRS"))
                    /\ frame_objects[u].end_coords[1][3] = frame_objects[u].end_coords[2][3]

\* C9 (as stated): the order of the labels is not significant for braces and
\* walls: "on;a-b" and "on;b-a" make add_braces generate the same braces and
\* add_walls the same panels.
C9_BraceWallLabelOrderIrrelevant ==
    pc = "add_braces" =>
        \A fam \in Families : \A on \in GridLabels(fam[1]) :
        \A a \in GridLabels(fam[2]) : \A b \in GridLabels(fam[2]) :
        \A i \in 1..Len(df_floors) :
            /\ df_braces # NoTable =>
                  SeqToSet(BayBraces(i, Desc(on, b, a))) = SeqToSet(BayBraces(i, Desc(on, a, b)))
            /\ df_walls # NoTable =>
                  SeqToSet(BayWalls(i, Desc(on, b, a))) = SeqToSet(BayWalls(i, Desc(on, a, b)))

\* The direction along the grid line `on`, and the one orthogonal to it.
Along(d) == IF InGrid(x_grids, d.on) THEN "X" ELSE "Y"

Orthogonal(d) == IF InGrid(x_grids, d.on) THEN "Y" ELSE "X"

\* The end points or vertices differ in coordinate c only in plan.
RunsAlong(points, c) ==
    /\ \A k \in DOMAIN points : points[k][3 - c] = points[1][3 - c]
    /\ \E k \in DOMAIN points : points[k][c] # points[1][c]

OnSomeLine(ix, u, grids) == \E g \in GridLabels(grids) : u \in SeqToSet(ix[OnTag(g)])

\* C10 (as stated): the lateral direction of a bay is the axis orthogonal to the
\* family of its on grid: Y for an on of x_grids, X for an on of y_grids, in
\* add_MFs, add_braces and add_walls alike.
C10_DirectionOrthogonalToOn ==
    pc = "set_base_fixity" =>
        \A c \in SeqToSet(BayCells) :
            /\ MFBayRange(c[2]).direction = Orthogonal(c[2])
            /\ BayGeometry(c[2]).direction = Orthogonal(c[2])

\* C10 (amended): for a bay whose from and to labels belong to the family other
\* than that of on, the lateral direction is the axis along the on grid line: X
\* for an on of x_grids, Y for an on of y_grids. add_MFs, add_braces and
\* add_walls assign this same direction, and the members tagged X lie on an
\* x_grids line and run in X, those tagged Y lie on a y_grids line and run in Y.
C10_DirectionAlongOn ==
    pc = "set_base_fixity" =>
        /\ \A c \in SeqToSet(BayCells) :
              /\ MFBayRange(c[2]).direction = Along(c[2])
              /\ BayGeometry(c[2]).direction = Along(c[2])
        /\ \A u \in TagSet(RoleTag("SFRS_braceX")) \cup TagSet(RoleTag("SFRS_beamX")) :
              /\ RunsAlong(sink_frames[u].end_coords, 1)
              /\ OnSomeLine(index_for, u, x_grids)
        /\ \A u \in TagSet(RoleTag("SFRS_braceY")) \cup TagSet(RoleTag("SFRS_beamY")) :
              /\ RunsAlong(sink_frames[u].end_coords, 2)
              /\ OnSomeLine(index_for, u, y_grids)
        /\ \A w \in SeqToSet(index_for_walls[RoleTag("SFRS_wallX")]) :
              /\ RunsAlong(sink_areas[w].vertices, 1)
              /\ OnSomeLine(index_for_walls, w, x_grids)
        /\ \A w \in SeqToSet(index_for_walls[RoleTag("SFRS_wallY")]) :
              /\ RunsAlong(sink_areas[w].vertices, 2)
              /\ OnSomeLine(index_for_walls, w, y_grids)

\* One run placed moment-frame beams, braces and walls on an x_grids line and on
\* a y_grids line.
C10_Witness ==
    /\ pc = "set_base_fixity"
    /\ \A r \in {"SFRS_beamX", "SFRS_beamY", "SFRS_braceX", "SFRS_braceY"} :
          TagSet(RoleTag(r)) # {}
    /\ \A r \in {"SFRS_wallX", "SFRS_wallY"} : index_for_walls[RoleTag(r)] # <<>>


(***************************************************************************)
(* Properties of brace generation and of the infill beams.                 *)
(***************************************************************************)
\* Members per sub-bay of a brace pattern.
BraceMultiplicity(config) ==
    CASE config \in {"SingleA", "SingleB"} -> 1
      [] config \in {"V", "Chevron"} -> 2
      [] config = "X" -> 4

\* The number of grid lines from d.from to d.to, both included (0 if d.to comes first).
BayLines(d) ==
    LET alphabet == IF InGrid(x_grids, d.on) THEN Letters ELSE Digits
        n == LabelPos(alphabet, d.to) - LabelPos(alphabet, d.from) + 1
    IN  IF n >= 1 THEN n ELSE 0

\* The brace pattern of cell <<i, d>>.
BayConfig(c) ==
    NormalizeConfig(IF InGrid(x_grids, c[2].on) THEN df_braces[c[1]].x_config
                    ELSE df_braces[c[1]].y_config)

\* The number of braces asked for by cell <<i, d>>.
BayBraceCount(c) ==
    IF BayLines(c[2]) >= 1 THEN BraceMultiplicity(BayConfig(c)) * (BayLines(c[2]) - 1) ELSE 0

\* The braces asked for by the first k cells.
RECURSIVE BraceCountUpTo(_, _)
BraceCountUpTo(cells, k) ==
    IF k = 0 THEN 0 ELSE BraceCountUpTo(cells, k - 1) + BayBraceCount(cells[k])

\* How often u occurs in the list.
Occurrences(list, u) == Cardinality({k \in DOMAIN list : list[k] = u})

\* C11: for a bay over n grid lines add_braces creates 1 * (n - 1) braces for
\* SingleA and SingleB, 2 * (n - 1) for V and Chevron, 4 * (n - 1) for X, and
\* files each created id exactly once under the floor, the "on <grid>" line,
\* "SFRS" and the SFRS_brace tag of the bay's direction (and under no other role).
C11_BraceCountsAndTags ==
    (pc = "add_walls" /\ df_braces # NoTable) =>
        \A cells \in {BayCells} : \A base \in {Cardinality(DOMAIN frame_objects)} :
            /\ Cardinality(DOMAIN sink_frames) = base + BraceCountUpTo(cells, Len(cells))
            /\ \A k \in 1..Len(cells) :
               \A u \in (base + BraceCountUpTo(cells, k - 1) + 1)
                            ..(base + BraceCountUpTo(cells, k)) :
                  LET d == cells[k][2]
                      own == {FloorTag(df_SFRSbays[cells[k][1]].floor_name), OnTag(d.on),
                              RoleTag("SFRS"),
                              RoleTag(IF InGrid(x_grids, d.on) THEN "SFRS_braceX"
                                      ELSE "SFRS_braceY")}
                  IN  /\ <<"add_braces", "create_frame", "frame", u>> \in sink_calls
                      /\ \A t \in own : Occurrences(index_for[t], u) = 1
                      /\ \A t \in RoleTags \ own : Occurrences(index_for[t], u) = 0

\* A bay of two sub-bays braced with the X pattern: eight braces on one floor line.
C11_Witness ==
    /\ pc = "add_walls"
    /\ df_braces # NoTable
    /\ \E c \in SeqToSet(BayCells) :
          /\ BayLines(c[2]) = 3
          /\ BayConfig(c) = "X"
          /\ Cardinality(Both(FloorTag(df_SFRSbays[c[1]].floor_name), OnTag(c[2].on))
                            \cap TagSet(RoleTag("SFRS_braceX"))) = 8

\* The infill beams of a floor between the grid lines x_left < x < x_right and
\* from y_start to y_end: beams of the floor filed under no grid line.
InfillBeamsIn(f, x_left, x_right, y_start, y_end) ==
    {u \in Both(FloorTag(f), RoleTag("beam")) \ OnFamily(y_grids) :
        LET ec == frame_objects[u].end_coords
        IN  /\ x_left < ec[1][1] /\ ec[1][1] < x_right
            /\ ec[1][2] = y_start /\ ec[2][2] = y_end}

\* C12: in every floor and every sub-bay between consecutive y_grids lines at
\* x_left and x_right (width W) and consecutive x_grids lines, create_frames
\* creates n_infill infill beams, the k-th at x = x_left + (k+1) * W / (n_infill+1),
\* spanning the two x_grids ordinates at the floor elevation; W/3 and 2W/3 for
\* n_infill = 2, none for n_infill = 0.
C12_InfillBeams ==
    pc = "delete_frames" =>
        \A n \in {model_options.n_infill} : \A idx \in 1..Len(df_floors) :
        \A i \in 1..(Len(y_grids) - 1) : \A j \in 1..(Len(x_grids) - 1) :
        \A x_left \in {y_grids[i].ord} : \A x_right \in {y_grids[i + 1].ord} :
        \A S \in {InfillBeamsIn(df_floors[idx].floor_name, x_left, x_right,
                                x_grids[j].ord, x_grids[j + 1].ord)} :
            /\ Cardinality(S) = n
            /\ \A k \in 0..(n - 1) : \E u \in S :
                  LET ec == frame_objects[u].end_coords
                  IN  /\ (n + 1) * (ec[1][1] - x_left) = (k + 1) * (x_right - x_left)
                      /\ ec[2][1] = ec[1][1]
                      /\ ec[1][3] = ZCurrent(idx) /\ ec[2][3] = ZCurrent(idx)
                      /\ sink_frames[u].end_coords = ec
            /\ n = 2 => {3 * (frame_objects[u].end_coords[1][1] - x_left) : u \in S}
                            = {x_right - x_left, 2 * (x_right - x_left)}

\* Two infill beams in each sub-bay of a 2 x 2 grid, at a third and two thirds.
C12_Witness ==
    /\ pc = "delete_frames"
    /\ model_options.n_infill = 2
    /\ Len(x_grids) = 2 /\ Len(y_grids) = 2
    /\ {frame_objects[u].end_coords[1][1] :
            u \in TagSet(RoleTag("beam")) \ OnFamily(y_grids)} = {4, 8}

(***************************************************************************)
(* Properties of the moment-frame classification.                          *)
(***************************************************************************)
\* The members of floor row i that lie on the on line of d with exactly one
\* endpoint between the two ordinates of d.
OneEndInBay(i, d) ==
    LET fam == IF InGrid(x_grids, d.on) THEN y_grids ELSE x_grids
        c == IF InGrid(x_grids, d.on) THEN 1 ELSE 2
        lo == Min2(GridOrd(fam, d.from), GridOrd(fam, d.to))
        hi == Max2(GridOrd(fam, d.from), GridOrd(fam, d.to))
        in(u, e) == /\ lo <= frame_objects[u].end_coords[e][c]
                    /\ frame_objects[u].end_coords[e][c] <= hi
    IN  {u \in Both(FloorTag(df_SFRSbays[i].floor_name), OnTag(d.on)) :
            in(u, 1) # in(u, 2)}

\* C20: for each bay descriptor of a floor, add_MFs keeps exactly the members
\* filed under both the floor and "on <on>" whose two endpoints lie in the
\* closed interval of the bay; over the whole pass these members, and no
\* others, are appended to "SFRS", re-released and flagged is_lateral, and a
\* member of no bay keeps its record, its sink state and receives no call.
C20_MFMarksExactlyInBayMembers ==
    [][((pc = "add_MFs" /\ df_MF # NoTable) =>
          \A marked \in {UNION {InBayMembers(c[1], c[2]) : c \in SeqToSet(BayCells)}} :
            /\ \A c \in SeqToSet(BayCells) :
                  MFKept(frame_objects, index_for, df_SFRSbays[c[1]].floor_name, c[2])
                      = InBayMembers(c[1], c[2])
            /\ SeqToSet(index_for'[RoleTag("SFRS")]) = marked
            /\ \A u \in DOMAIN frame_objects :
                  IF u \in marked
                  THEN /\ frame_objects'[u].is_lateral
                       /\ <<"add_MFs", "set_releases", "frame", u>> \in sink_calls'
                       /\ SinkHas(sink_frames, u) => sink_frames'[u].releases = "fixed"
                  ELSE /\ frame_objects'[u] = frame_objects[u]
                       /\ sink_frames'[u] = sink_frames[u]
                       /\ \A call \in sink_calls' \ sink_calls : call[4] # u)]_vars

\* add_MFs has run with a bay that a member on its on line straddles: one
\* endpoint inside the interval and one outside; the member is not lateral
\* while a member with both endpoints inside is.
C20_Witness ==
    /\ pc = "add_braces"
    /\ df_MF # NoTable
    /\ \E c \in SeqToSet(BayCells) :
          /\ \E u \in OneEndInBay(c[1], c[2]) :
                /\ u \notin TagSet(RoleTag("SFRS"))
                /\ ~frame_objects[u].is_lateral
          /\ \E u \in InBayMembers(c[1], c[2]) :
                /\ frame_objects[u].is_lateral
                /\ frame_objects[u].frame_type = "SFRS_beam"

(***************************************************************************)
(* Properties of the roles.                                                *)
(***************************************************************************)
\* The changes of frame_type the classification may make.
Promotions ==
    {<<"column", "SFRS_column">>, <<"girder", "SFRS_beam">>, <<"beam", "SFRS_beam">>}

\* Every member's frame_type in `after` is the one in `before` or a promotion of it.
OnlyPromotions(before, after) ==
    \A u \in DOMAIN before :
        \/ after[u].frame_type = before[u].frame_type
        \/ <<before[u].frame_type, after[u].frame_type>> \in Promotions

BraceRoleTags == {RoleTag("SFRS_braceX"), RoleTag("SFRS_braceY")}

\* The state of add_MFs after its first k bays
StateAfterBays(k) ==
    MFFold([fo |-> frame_objects, sf |-> sink_frames, ix |-> index_for,
            calls |-> sink_calls], SubSeq(BayCells, 1, k))

\* C16: a member's frame_type changes only column -> SFRS_column, girder ->
\* SFRS_beam or beam -> SFRS_beam, in every step of the run and from each bay
\* of add_MFs to the next; a member with an SFRS role keeps it, and an id filed
\* as a brace stays filed as a brace of the same direction and under no other
\* role.
C16_RolesOnlyPromoted ==
    [][(/\ OnlyPromotions(frame_objects, frame_objects')
        /\ (pc = "add_MFs" /\ df_MF # NoTable) =>
              \A k \in 1..Len(BayCells) :
                 \A st \in {StateAfterBays(k - 1)} :
                    OnlyPromotions(st.fo, MFBay(st, BayCells[k][1], BayCells[k][2]).fo)
        /\ (index_for # NoTable /\ index_for' # NoTable) =>
              \A t \in BraceRoleTags : \A u \in SeqToSet(index_for[t]) :
                 /\ u \in SeqToSet(index_for'[t])
                 /\ \A t2 \in RoleTags \ {t, RoleTag("SFRS")} :
                       u \notin SeqToSet(index_for'[t2]))]_vars

\* The run and both resyncs are over; a column at the crossing of an X bay
\* and a Y bay was classified twice and is an SFRS_column, a girder or beam
\* was promoted to SFRS_beam, and braces are filed.
C16_Witness ==
    /\ pc = "done"
    /\ \E u \in DOMAIN frame_objects :
          /\ frame_objects[u].frame_type = "SFRS_column"
          /\ Occurrences(index_for[RoleTag("SFRS")], u) = 2
    /\ \E u \in DOMAIN frame_objects : frame_objects[u].frame_type = "SFRS_beam"
    /\ \E t \in BraceRoleTags : index_for[t] # <<>>

(***************************************************************************)
(* Properties of the order of the passes.                                  *)
(***************************************************************************)
\* The passes in the order of run.py main, then the two resyncs.
PassOrder ==
    <<"create_elevations", "create_grids", "create_floors", "create_frames",
      "delete_frames", "add_MFs", "add_braces", "add_walls", "set_base_fixity",
      "set_groups", "pickle", "update_1", "update_2", "done">>

PassRank(p) == CHOOSE k \in DOMAIN PassOrder : PassOrder[k] = p

LateralPasses == {"add_MFs", "add_braces", "add_walls"}

\* Stories, grid lines and the floor of every story are defined.
GridsAndFloorsDefined ==
    /\ floor_names # NoTable
    /\ <<"create_elevations", "define_stories", "model", 0>> \in sink_calls
    /\ <<"create_grids", "define_grid_lines", "model", 0>> \in sink_calls
    /\ floor_objects # NoTable
    /\ DOMAIN floor_objects = SeqToSet(floor_names)
    /\ \A f \in DOMAIN floor_objects : floor_objects[f].unique_name \in DOMAIN sink_areas

\* Every member of the lattice of every floor is created and filed.
LatticeComplete ==
    \A plans \in {LatticePlans} :
        /\ DOMAIN frame_objects = 1..Len(plans)
        /\ DOMAIN sink_frames = 1..Len(plans)
        /\ \A u \in 1..Len(plans) :
              /\ <<"create_frames", "create_frame", "frame", u>> \in sink_calls
              /\ u \in TagSet(FloorTag(plans[u].frame.story))

\* On every floor, every member the polygon does not cover is deleted.
TrimmingComplete ==
    \A i \in 1..Len(floor_names) : \A poly \in {FloorPoly(i)} :
    \A u \in FloorMembers(i) :
        ~Covers(poly, End1(u), End2(u)) => DeletedWhole(u)

\* The lateral passes, base fixity and the groups have all run.
PlacementFinished ==
    /\ df_MF # NoTable =>
            \A c \in SeqToSet(BayCells) : \A r \in {MFBayRange(c[2])} :
            \A u \in Both(FloorTag(df_SFRSbays[c[1]].floor_name), OnTag(c[2].on))
                        \cap DOMAIN frame_objects :
                CheckInSFRSbay(frame_objects[u], r.direction, r.ordinate_from, r.ordinate_to)
                    => /\ frame_objects[u].is_lateral
                       /\ u \in TagSet(RoleTag("SFRS"))
    /\ df_braces # NoTable =>
            Cardinality(DOMAIN sink_frames)
                = Cardinality(DOMAIN frame_objects) + BraceCountUpTo(BayCells, Len(BayCells))
    /\ df_walls # NoTable =>
            \A t \in WallRoleTags : \A u \in SeqToSet(index_for_walls[t]) :
                u \in DOMAIN sink_areas
    /\ group_list \subseteq DOMAIN sink_groups
    /\ \A u \in TagSet(RoleTag("SFRS")) :
            <<"set_groups", "assign_to_group", "frame", u>> \in sink_calls

\* C17: the passes run in the order of run.py main.  The position only moves
\* to the next pass, and the model calls of a pass come after those of all
\* earlier passes; stories, grids and floors are defined when the first
\* frame is created; the lattice of all floors is complete when the first
\* member is trimmed; the trimming of all floors is complete when the first
\* lateral pass starts and nothing is trimmed afterwards; the Structure is
\* persisted once, after lateral placement, base fixity and groups, and only
\* the resync touches the model after that.
C17_FixedPassOrder ==
    [][(/\ pc' # pc => PassRank(pc') = PassRank(pc) + 1
        /\ \A earlier \in {{c[1] : c \in sink_calls}} :
           \A now \in {{c[1] : c \in sink_calls' \ sink_calls}} :
              /\ now \subseteq {pc}
              /\ now # {} => \A p \in earlier : PassRank(p) < PassRank(pc)
        /\ (sink_frames = <<>> /\ sink_frames' # <<>>) => GridsAndFloorsDefined
        /\ pc = "delete_frames" => LatticeComplete
        /\ pc = "add_MFs" => TrimmingComplete
        /\ PassRank(pc) >= PassRank("add_MFs") =>
              /\ index_for'[RoleTag("deleted")] = index_for[RoleTag("deleted")]
              /\ \A u \in DOMAIN frame_objects :
                    frame_objects'[u].deleted = frame_objects[u].deleted
        /\ PassRank(pc) < PassRank("add_MFs") =>
              \A u \in DOMAIN frame_objects' : ~frame_objects'[u].is_lateral
        /\ pickled' # pickled =>
              /\ pickled = NoTable
              /\ pc = "pickle"
              /\ PlacementFinished
              /\ pickled'.index_for = index_for
              /\ pickled'.index_for_walls = index_for_walls
        /\ pickled # NoTable =>
              /\ UNCHANGED <<index_for, index_for_walls, frame_objects, sink_groups>>
              /\ DOMAIN sink_frames' = DOMAIN sink_frames
              /\ DOMAIN sink_areas' = DOMAIN sink_areas)]_vars

\* A run that trimmed members of the second floor, classified moment-frame
\* members, created braces, assigned the groups and persisted the Structure.
C17_Witness ==
    /\ pc = "update_1"
    /\ pickled # NoTable
    /\ \E c \in sink_calls :
          /\ c[1] = "delete_frames"
          /\ Len(floor_names) > 1
          /\ c[4] \in TagSet(FloorTag(floor_names[2]))
    /\ \E c \in sink_calls : c[1] = "add_MFs"
    /\ \E c \in sink_calls : c[1] = "set_groups"

(***************************************************************************)
(* Properties of the persisted Structure.                                  *)
(***************************************************************************)
\* C18 (as stated): when the Structure is persisted, every frame id filed
\* under any tag of index_for, lattice member or brace, has a record in
\* frame_objects.
C18_PersistedIndexHasRecords ==
    pickled # NoTable =>
        \A t \in DOMAIN pickled.index_for :
            SeqToSet(pickled.index_for[t]) \subseteq DOMAIN pickled.frame_objects

\* C19 (as stated): the section field of every record of frame_objects is the
\* section most recently assigned to the member in the model, after the
\* promotions of add_MFs and after each resync.
C19_RecordHoldsCurrentSection ==
    PassRank(pc) > PassRank("add_MFs") =>
        \A u \in DOMAIN frame_objects :
            SinkHas(sink_frames, u) => frame_objects[u].section = sink_frames[u].section

(***************************************************************************)
(* Properties of the error handling, checked under SpecFaulty.             *)
(***************************************************************************)
\* create_frames has run.
LatticeCreated ==
    pc \notin {"create_elevations", "create_grids", "create_floors", "create_frames"}

\* C13 (as stated): when the sink fails a create_frame call of the lattice,
\* the member keeps a sentinel id and every later operation on it is a no-op:
\* no sink call names the sentinel besides the failed create_frame, and the
\* sentinel is filed under no tag of the index.
C13_FailedCreateIsInert ==
    (sink_fail # 0 /\ LatticeCreated) =>
        /\ \A c \in sink_calls :
              (c[3] = "frame" /\ c[4] = Sentinel) => c[2] = "create_frame"
        /\ \A t \in DOMAIN index_for : Sentinel \notin SeqToSet(index_for[t])

\* Bay cell k raises in a lateral pass that the input enables.
CellRaises(k) ==
    LET i == BayCells[k][1]
        d == BayCells[k][2]
    IN  \/ df_MF # NoTable /\ MFRaises(d)
        \/ df_braces # NoTable /\ BraceRaises(i, d)
        \/ df_walls # NoTable /\ WallRaises(d)

\* The lattice members of bay cell k (a cell that does not raise).
LatticeInBay(k) ==
    LET r == MFBayRange(BayCells[k][2])
    IN  {u \in Both(FloorTag(df_SFRSbays[BayCells[k][1]].floor_name),
                    OnTag(BayCells[k][2].on)) \cap DOMAIN frame_objects :
            CheckInSFRSbay(frame_objects[u], r.direction, r.ordinate_from, r.ordinate_to)}

\* Every enabled lateral pass has done its work for bay cell k.
CellProcessed(k) ==
    LET i == BayCells[k][1]
        d == BayCells[k][2]
    IN  /\ df_MF # NoTable =>
              \A u \in LatticeInBay(k) :
                 /\ frame_objects[u].is_lateral
                 /\ u \in TagSet(RoleTag("SFRS"))
        /\ df_braces # NoTable =>
              \A ends \in SeqToSet(BayBraces(i, d)) :
                 \E u \in TagSet(RoleTag("SFRS_braceX")) \cup TagSet(RoleTag("SFRS_braceY")) :
                    sink_frames[u].end_coords = ends
        /\ df_walls # NoTable =>
              \A panel \in SeqToSet(BayWalls(i, d)) :
                 \E u \in DOMAIN sink_areas :
                    sink_areas[u].kind = "wall" /\ sink_areas[u].vertices = panel

\* C14 (as stated): an error in one bay cell does not abort the run; every
\* other bay of the floor and of the remaining floors is still processed by
\* add_MFs, add_braces and add_walls.
C14_OtherBaysStillProcessed ==
    error # NoTable =>
        \A k \in DOMAIN BayCells : ~CellRaises(k) => CellProcessed(k)

\* The lattice members of bay cell e that lie in no other bay cell.
OnlyInBay(e) ==
    LatticeInBay(e) \ UNION {LatticeInBay(j) :
                                j \in {k \in DOMAIN BayCells \ {e} : ~MFRaises(BayCells[k][2])}}

\* C15 (as stated): when a bay cell raises a descriptor error, no lateral
\* pass has attempted a sink mutation for that cell: no member of the bay
\* has been re-released, re-sectioned or rotated.  (Checked on the members
\* the bay shares with no other bay, where the calls can only be the bay's.)
C15_ErrorBeforeAnyMutation ==
    (error # NoTable /\ ~MFRaises(BayCells[error.cell][2])) =>
        \A u \in OnlyInBay(error.cell) :
            /\ ~frame_objects[u].is_lateral
            /\ \A c \in sink_calls : c[1] \in LateralPasses => c[4] # u

\* add_MFs has classified the members of a bay between grid lines A and C,
\* and add_braces then raised on the same bay: B is no grid line.
C15_GapWitness ==
    /\ error # NoTable
    /\ error.pass = "add_braces"
    /\ ~InGrid(y_grids, "B")
    /\ BayCells[error.cell][2] = Desc("1", "A", "C")
    /\ \E u \in OnlyInBay(error.cell) : frame_objects[u].is_lateral

(***************************************************************************)
(* Properties of the moment-frame columns.                                 *)
(***************************************************************************)
\* Member u of the lattice is vertical: a column.
IsColumn(u) ==
    /\ frame_objects[u].end_coords[1][1] = frame_objects[u].end_coords[2][1]
    /\ frame_objects[u].end_coords[1][2] = frame_objects[u].end_coords[2][2]

\* C21 (as stated): after add_MFs every column kept by a Y-direction bay has
\* the y_column section of its floor and a rotation of 90 degrees in the
\* model and is filed under SFRS_columnY, also when an X-direction bay
\* processed earlier kept it; a column kept by X-direction bays only is not
\* rotated.
C21_YBayColumnsRotated ==
    (pc = "add_braces" /\ df_MF # NoTable) =>
        \A k \in DOMAIN BayCells :
        \A u \in {v \in InBayMembers(BayCells[k][1], BayCells[k][2]) :
                     IsColumn(v) /\ SinkHas(sink_frames, v)} :
            IF MFBayRange(BayCells[k][2]).direction = "Y"
            THEN /\ sink_frames[u].angle = 90
                 /\ sink_frames[u].section = df_MF[BayCells[k][1]].y_column
                 /\ u \in TagSet(RoleTag("SFRS_columnY"))
            ELSE (\A j \in DOMAIN BayCells :
                     u \in InBayMembers(BayCells[j][1], BayCells[j][2])
                        => MFBayRange(BayCells[j][2]).direction = "X")
                 => sink_frames[u].angle = 0

(***************************************************************************)
(* Properties of the brace geometry.                                       *)
(***************************************************************************)
\* The value halfway between a and b.
Halfway(a, b) == CHOOSE m \in Min2(a, b)..Max2(a, b) : 2 * m = a + b

\* The configuration table: the braces of a sub-bay from start to end, each
\* the pair of its end points <<ordinate along the bay, elevation>>.
BraceTable(config, start, end, z_below, z_current) ==
    LET mid == Halfway(start, end)
        z_mid == Halfway(z_below, z_current)
    IN  CASE config = "SingleA" -> {{<<start, z_below>>, <<end, z_current>>}}
          [] config = "SingleB" -> {{<<end, z_below>>, <<start, z_current>>}}
          [] config = "V" -> {{<<start, z_current>>, <<mid, z_below>>},
                              {<<end, z_current>>, <<mid, z_below>>}}
          [] config = "Chevron" -> {{<<start, z_below>>, <<mid, z_current>>},
                                    {<<end, z_below>>, <<mid, z_current>>}}
          [] config = "X" -> {{<<start, z_below>>, <<mid, z_mid>>},
                              {<<end, z_current>>, <<mid, z_mid>>},
                              {<<start, z_current>>, <<mid, z_mid>>},
                              {<<end, z_below>>, <<mid, z_mid>>}}

\* The ordinate of the s-th grid line of the range of descriptor d.
RangeOrd(d, s) ==
    IF InGrid(x_grids, d.on)
    THEN GridOrd(y_grids, Letters[LabelPos(Letters, d.from) + s - 1])
    ELSE GridOrd(x_grids, Digits[LabelPos(Digits, d.from) + s - 1])

\* C22: in every sub-bay between adjacent grid lines of a bay, the braces
\* that add_braces creates have, along the bay and in elevation, exactly the
\* end points of the configuration table (SingleA, SingleB, V, Chevron, X,
\* with mid and z_mid the halfway values), and both end points of every
\* brace have the ordinate of the on grid line as their other coordinate.
C22_BraceEndpoints ==
    (pc = "add_walls" /\ df_braces # NoTable) =>
        \A cells \in {BayCells} : \A base \in {Cardinality(DOMAIN frame_objects)} :
        \A k \in 1..Len(cells) :
            LET i == cells[k][1]
                d == cells[k][2]
                onX == InGrid(x_grids, d.on)
                along == IF onX THEN 1 ELSE 2
                cross == IF onX THEN 2 ELSE 1
                m == BraceMultiplicity(BayConfig(cells[k]))
                first == base + BraceCountUpTo(cells, k - 1)
                ends(u) == {<<sink_frames[u].end_coords[e][along],
                              sink_frames[u].end_coords[e][3]>> : e \in 1..2}
            IN  \A s \in 1..(BayLines(d) - 1) :
                \A ids \in {(first + (s - 1) * m + 1)..(first + s * m)} :
                    /\ ZBelow(i) < ZCurrent(i)
                    /\ {ends(u) : u \in ids}
                          = BraceTable(BayConfig(cells[k]), RangeOrd(d, s), RangeOrd(d, s + 1),
                                       ZBelow(i), ZCurrent(i))
                    /\ \A u \in ids : \A e \in 1..2 :
                          sink_frames[u].end_coords[e][cross]
                              = GridOrd(IF onX THEN x_grids ELSE y_grids, d.on)

\* A bay along a y grid line braced with the V pattern: two braces meet at
\* the midpoint of the sub-bay at the elevation of the floor below; and a
\* SingleA brace rises from the start of its sub-bay.
C22_Witness ==
    /\ pc = "add_walls"
    /\ df_braces # NoTable
    /\ \E c \in SeqToSet(BayCells) :
          /\ BayLines(c[2]) >= 2
          /\ InGrid(y_grids, c[2].on)
          /\ BayConfig(c) \in {"V", "SingleA"}
          /\ \E u \in TagSet(RoleTag("SFRS_braceY")) \cap TagSet(OnTag(c[2].on)) :
                /\ sink_frames[u].end_coords[1][1] = GridOrd(y_grids, c[2].on)
                /\ sink_frames[u].end_coords[2][1] = GridOrd(y_grids, c[2].on)
                /\ \/ BayConfig(c) = "V"
                      /\ sink_frames[u].end_coords[2]
                            = <<GridOrd(y_grids, c[2].on),
                                Halfway(RangeOrd(c[2], 1), RangeOrd(c[2], 2)),
                                ZBelow(c[1])>>
                   \/ BayConfig(c) = "SingleA"
                      /\ sink_frames[u].end_coords[1][2] = RangeOrd(c[2], 1)
                      /\ sink_frames[u].end_coords[1][3] = ZBelow(c[1])

(***************************************************************************)
(* Properties of the index after create_frames.                            *)
(***************************************************************************)
\* The tags of family fam ("role", "floor", "on") whose list holds id u.
TagsOf(fam, u) == {t \in DOMAIN index_for : t[1] = fam /\ u \in SeqToSet(index_for[t])}

\* The tags of the grid lines on which both ends of member u lie.
LinesOf(u) ==
    LET ec == frame_objects[u].end_coords
    IN  {OnTag(x_grids[i].label) : i \in {j \in DOMAIN x_grids :
              ec[1][2] = x_grids[j].ord /\ ec[2][2] = x_grids[j].ord}}
        \cup
        {OnTag(y_grids[i].label) : i \in {j \in DOMAIN y_grids :
              ec[1][1] = y_grids[j].ord /\ ec[2][1] = y_grids[j].ord}}

\* The floors whose elevation is the elevation of the upper end of member u.
FloorsAt(u) ==
    {FloorTag(df_floors[i].floor_name) : i \in {j \in DOMAIN df_floors :
          ZCurrent(j) = frame_objects[u].end_coords[2][3]}}

\* C23: after create_frames every member of the lattice is under exactly one
\* role tag (column for a vertical member, girder for a member along an x
\* grid line, beam otherwise), under exactly the tag of its own floor, and
\* under the "on" tag of exactly the grid lines it lies on: both lines for
\* a column, the x grid line for a girder, the y grid line for an on-grid
\* beam, none for an infill beam.
C23_LatticeTags ==
    pc = "delete_frames" =>
        \A u \in DOMAIN frame_objects :
            /\ TagsOf("role", u) =
                  {RoleTag(IF IsColumn(u) THEN "column"
                           ELSE IF frame_objects[u].end_coords[1][2]
                                      = frame_objects[u].end_coords[2][2]
                                THEN "girder" ELSE "beam")}
            /\ TagsOf("floor", u) = {FloorTag(frame_objects[u].story)}
            /\ TagsOf("floor", u) = FloorsAt(u)
            /\ TagsOf("on", u) = LinesOf(u)
            /\ Cardinality(LinesOf(u)) =
                  (IF IsColumn(u) THEN 2
                   ELSE IF frame_objects[u].end_coords[1][1] \in {g.ord : g \in SeqToSet(y_grids)}
                        THEN 1 ELSE 0)

\* After create_frames the lattice holds a column under two grid lines, a
\* girder under one x grid line, an on-grid beam under one y grid line and
\* an infill beam under none.
C23_Witness ==
    /\ pc = "delete_frames"
    /\ \E c, g, b, n \in DOMAIN frame_objects :
          /\ TagsOf("role", c) = {RoleTag("column")} /\ Cardinality(TagsOf("on", c)) = 2
          /\ TagsOf("role", g) = {RoleTag("girder")}
          /\ TagsOf("on", g) \subseteq {OnTag(l) : l \in GridLabels(x_grids)}
          /\ Cardinality(TagsOf("on", g)) = 1
          /\ TagsOf("role", b) = {RoleTag("beam")}
          /\ TagsOf("on", b) \subseteq {OnTag(l) : l \in GridLabels(y_grids)}
          /\ Cardinality(TagsOf("on", b)) = 1
          /\ TagsOf("role", n) = {RoleTag("beam")} /\ TagsOf("on", n) = {}

(***************************************************************************)
(* Properties of the wall panels.                                          *)
(***************************************************************************)
\* The panels asked for by the first k cells: one per pair of adjacent lines.
RECURSIVE WallCountUpTo(_, _)
WallCountUpTo(cells, k) ==
    IF k = 0 THEN 0
    ELSE WallCountUpTo(cells, k - 1)
            + (IF BayLines(cells[k][2]) >= 1 THEN BayLines(cells[k][2]) - 1 ELSE 0)

\* The ids of the wall panels in the sink.
WallIds == {u \in DOMAIN sink_areas : sink_areas[u].kind = "wall"}

\* The cell whose panels include the n-th wall created.
CellOfWall(cells, n) ==
    CHOOSE k \in 1..Len(cells) : WallCountUpTo(cells, k - 1) < n /\ n <= WallCountUpTo(cells, k)

\* C24: for every descriptor of a floor add_walls creates exactly one panel
\* per pair of adjacent grid lines of the range: four vertices, the two
\* ordinates of the pair at z_current and at z_below, all on the on grid
\* line; every panel of the descriptor carries the pier label made of the
\* floor name and the descriptor, and two panels with the same pier label
\* come from the same floor and the same descriptor.
C24_WallPanels ==
    (pc = "set_base_fixity" /\ df_walls # NoTable) =>
        \A cells \in {BayCells} : \A base \in {Cardinality(DOMAIN sink_areas \ WallIds)} :
            /\ WallIds = (base + 1)..(base + WallCountUpTo(cells, Len(cells)))
            /\ \A k \in 1..Len(cells) :
                  LET i == cells[k][1]
                      d == cells[k][2]
                      onX == InGrid(x_grids, d.on)
                      along == IF onX THEN 1 ELSE 2
                      cross == IF onX THEN 2 ELSE 1
                      first == base + WallCountUpTo(cells, k - 1)
                  IN  \A s \in 1..(BayLines(d) - 1) :
                      \A v \in {sink_areas[first + s].vertices} :
                          /\ Len(v) = 4
                          /\ {<<v[n][along], v[n][3]>> : n \in 1..4}
                                = {RangeOrd(d, s), RangeOrd(d, s + 1)} \X {ZBelow(i), ZCurrent(i)}
                          /\ RangeOrd(d, s) # RangeOrd(d, s + 1)
                          /\ ZBelow(i) # ZCurrent(i)
                          /\ \A n \in 1..4 :
                                v[n][cross] = GridOrd(IF onX THEN x_grids ELSE y_grids, d.on)
                          /\ sink_areas[first + s].pier = <<df_SFRSbays[i].floor_name, d>>
                          /\ sink_areas[first + s].pier \in sink_piers
            /\ \A a, b \in WallIds :
                  sink_areas[a].pier = sink_areas[b].pier =>
                      \E ka \in {CellOfWall(cells, a - base)} :
                      \E kb \in {CellOfWall(cells, b - base)} :
                          /\ cells[ka][2] = cells[kb][2]
                          /\ df_SFRSbays[cells[ka][1]].floor_name
                                = df_SFRSbays[cells[kb][1]].floor_name

\* Walls on two floors, or under two descriptors of one floor, so that the
\* sink holds panels under at least two pier labels, and a bay of more than
\* one panel whose panels share their label.
C24_Witness ==
    /\ pc = "set_base_fixity"
    /\ df_walls # NoTable
    /\ Cardinality({sink_areas[u].pier : u \in WallIds}) >= 2
    /\ \E a, b \in WallIds : a # b /\ sink_areas[a].pier = sink_areas[b].pier

(***************************************************************************)
(* Properties of the pier labels.                                          *)
(***************************************************************************)
\* C25: add_walls deletes every pier label the sink holds before the pass,
\* except "P1", before it creates a panel: after the pass the labels other
\* than "P1" are exactly the labels of the panels created by this pass (a
\* label of an earlier run survives only if this run creates it again), and
\* "P1" is kept.
C25_PiersDeletedFirst ==
    [][((pc = "add_walls" /\ df_walls # NoTable) =>
          /\ sink_piers' \ {P1} =
                {sink_areas'[u].pier : u \in DOMAIN sink_areas' \ DOMAIN sink_areas}
          /\ (sink_piers \ sink_piers') \cap {P1} = {})
       /\ (P1 \in sink_piers => P1 \in sink_piers')]_vars

\* After add_walls on a model that held the labels of an earlier run and a
\* foreign label: the foreign label is gone, a label of the earlier run is
\* there again and "P1" is still there.
C25_Witness ==
    /\ pc = "set_base_fixity"
    /\ df_walls # NoTable
    /\ ForeignPier \notin sink_piers
    /\ P1 \in sink_piers
    /\ \E u \in WallIds : sink_areas[u].pier \in sink_piers
    /\ Cardinality(sink_piers) >= 3

(***************************************************************************)
(* Properties of the column elevations.                                    *)
(***************************************************************************)
\* C26 (as stated): every column of a floor other than the lowest spans from
\* the elevation of the next record of the floor table to the elevation of
\* its own floor, with the column section of its floor.
C26_ColumnsFromFloorBelow ==
    pc = "delete_frames" =>
        \A idx \in 1..(Len(df_floors) - 1) :
        \A u \in Both(RoleTag("column"), FloorTag(df_floors[idx].floor_name))
                    \cap DOMAIN sink_frames :
            /\ sink_frames[u].end_coords[1][3] = ZCurrent(idx + 1)
            /\ sink_frames[u].end_coords[2][3] = ZCurrent(idx)
            /\ sink_frames[u].section = df_floors[idx].column

(***************************************************************************)
(* Properties of the index lists.                                          *)
(***************************************************************************)
\* C27 (as stated): every list of the index is a set: after create_frames,
\* delete_frames, add_MFs and add_braces no id occurs more than once under
\* any tag, "SFRS" included.
C27_TagsHoldNoDuplicates ==
    pc \in {"delete_frames", "add_MFs", "add_braces", "add_walls"} =>
        \A t \in DOMAIN index_for :
            Cardinality(SeqToSet(index_for[t])) = Len(index_for[t])

(***************************************************************************)
(* Properties of the groups.                                               *)
(***************************************************************************)
\* The members of group g of the given kind.
GroupMembers(g, kind) == {m[2] : m \in {n \in sink_groups[g] : n[1] = kind}}

\* After set_groups the frame groups of a direction hold the ids of the
\* matching tag that the sink still has.
FrameGroupsMatch ==
    \A p \in {<<"SFRS_BM X", "SFRS_beamX">>, <<"SFRS_BM Y", "SFRS_beamY">>,
              <<"SFRS_COL X", "SFRS_columnX">>, <<"SFRS_COL Y", "SFRS_columnY">>,
              <<"SFRS_BRACE X", "SFRS_braceX">>, <<"SFRS_BRACE Y", "SFRS_braceY">>} :
        /\ GroupMembers(p[1], "frame")
              = {u \in TagSet(RoleTag(p[2])) : SinkHas(sink_frames, u)}
        /\ GroupMembers(p[1], "area") = {}

\* C28 (as stated): after set_groups every directional group holds exactly
\* the ids of the matching tag: "SFRS_WALL X" those of SFRS_wallX,
\* "SFRS_WALL Y" those of SFRS_wallY, and likewise the beam, column and
\* brace groups.
C28_GroupsMatchTags ==
    pc = "pickle" =>
        /\ FrameGroupsMatch
        /\ \A p \in {<<"SFRS_WALL X", "SFRS_wallX">>, <<"SFRS_WALL Y", "SFRS_wallY">>} :
              /\ GroupMembers(p[1], "area") = SeqToSet(index_for_walls[RoleTag(p[2])])
              /\ GroupMembers(p[1], "frame") = {}

(***************************************************************************)
(* Properties of the deleted members.                                      *)
(***************************************************************************)
\* The ids for which delete_member has been issued.
DeletedInSink == {c[4] : c \in {d \in sink_calls : d[2] = "delete_member"}}

\* The frame ids named by the sink calls of the passes that follow
\* delete_frames, in the generation and in the resync.
NamedAfterTrimming ==
    {c[4] : c \in {d \in sink_calls :
                      d[3] = "frame" /\ d[1] \notin {"create_frames", "delete_frames"}}}

\* C29 (as stated): once delete_member has been issued for an id, no sink
\* call of a later pass names it: no set_releases, set_section or rotation
\* of add_MFs, no group assignment of set_groups, no set_section of the
\* resync.
C29_DeletedNeverNamedAgain ==
    DeletedInSink \cap NamedAfterTrimming = {}

(***************************************************************************)
(* Properties of the resync of moment-frame members.                       *)
(***************************************************************************)
\* The SFRS role tags of add_MFs and their column of the moment-frame table.
MFTagColumns ==
    {<<"SFRS_columnX", "x_column">>, <<"SFRS_columnY", "y_column">>,
     <<"SFRS_beamX", "x_beam">>, <<"SFRS_beamY", "y_beam">>}

\* C30 (as stated): after a resync every member under SFRS_columnX/Y or
\* SFRS_beamX/Y that the sink still has carries the moment-frame section of
\* its floor and direction from the fresh tables and not a gravity section
\* of that floor, also when the fresh moment-frame table is empty.
C30_ResyncKeepsMFSections ==
    (pc \in {"update_2", "done"} /\ pickled # NoTable) =>
        \A i \in DOMAIN floor_names : \A p \in MFTagColumns :
        \A u \in {v \in Both(FloorTag(floor_names[i]), RoleTag(p[1])) :
                     SinkHas(sink_frames, v)} :
            /\ update_tables.df_MF # NoTable =>
                  sink_frames[u].section = update_tables.df_MF[i][p[2]]
            /\ sink_frames[u].section \notin
                  {update_tables.df_floors[i].column, update_tables.df_floors[i].girder,
                   update_tables.df_floors[i].beam}

====
